---------------------------- MODULE Spec2Model ----------------------------
(***************************************************************************)
(* A model of the transactional inode file system of SyncStore.ts and of   *)
(* the buffered file handle of file.ts.                                    *)
(*                                                                         *)
(* Store keys are numbers: ROOT_NODE_ID is the fixed key of the root       *)
(* inode, every other key stands for a value of randomUUID().  Path        *)
(* strings, names and flag strings are sequences of one-character strings, *)
(* so that dirname, basename, indexOf and the prefix test of renameSync    *)
(* are computed on characters as the code computes them.                   *)
(***************************************************************************)
EXTENDS Integers, Sequences, FiniteSets, TLC

\* ------------------------------------------------------------------ bounds
\* Non-root nodes (files and directories) that may exist at once.
MaxNodes == 2
\* Longest file buffer, in bytes.
MaxLen == 2
\* Put attempts of addNewNode after which the allocation model stops counting.
MaxAttempts == 7
\* Files that may exist at once while a handle is followed.
MaxFiles == 1

\* ------------------------------------------------------- program constants
ROOT_NODE_ID == 0
\* The literal 5 of addNewNode's loop condition.
RetryLimit == 5

\* Keys randomUUID() can return.  A node takes two keys (inode and data), and
\* so does the root besides ROOT_NODE_ID.
UUIDs == 1 .. (2 * MaxNodes + 2)
Keys == {ROOT_NODE_ID} \cup UUIDs

\* ------------------------------------------------------------------ values
\* What a store key holds.  `undefined` is the result of get on a missing key.
undefined == [kind |-> "undefined"]
\* originalData.has(key) is false.
NotStashed == [kind |-> "notstashed"]
Bytes(b) == [kind |-> "bytes", b |-> b]
Listing(l) == [kind |-> "listing", l |-> l]
InodeBlob(i) == [kind |-> "inode", i |-> i]


\* Keys and values the transaction specification SpecTx plays with.
TxKeys == {1, 2}
TxValues == {Bytes(<<>>), Bytes(<<1>>)}

VARIABLES
    \* SpecTx: one SimpleSyncRWTransaction over a simple store.
    tx,         \* [store, originalData, modifiedKeys]
    txPre,      \* the store's content when the transaction began
    txPhase,    \* "open" | "aborted" | "committed"
    txTouched,  \* the store differed from txPre when abort() was called
    \* SpecAlloc: the loop of addNewNode, one iteration per step.
    alloc,
    \* Spec: the file system over its store, the open handle, the last call.
    store,      \* the key-value store: Keys -> value
    file,       \* the open SyncStoreFile, or NoFile
    last,       \* what the last engine or handle call did
    \* SpecFlag: the static cache of FileFlag and the last FileFlag call.
    cache,      \* the keys of FileFlag.cache
    conv,       \* what the last FileFlag call was given and answered
    \* SpecResolve: one call of findINode, an invocation of _findINode a step.
    walk,
    \* SpecTwo: two handles on /a and the buffer objects they and the store
    \* hold.
    pair

vars == <<tx, txPre, txPhase, txTouched, alloc, store, file, last, cache,
          conv, walk, pair>>
txVars == <<tx, txPre, txPhase, txTouched>>
fsVars == <<store, file, last>>
flagVars == <<cache, conv>>

\* ------------------------------------------------------- SimpleSyncStore
StoreGet(s, key) == s[key]

\* put: with overwrite = false, avoids storing if the key exists and
\* returns false.
StorePut(s, key, data, overwrite) ==
    IF ~overwrite /\ s[key] # undefined
    THEN [store |-> s, ok |-> FALSE]
    ELSE [store |-> [s EXCEPT ![key] = data], ok |-> TRUE]

StoreRemove(s, key) == [s EXCEPT ![key] = undefined]

EmptyStore == [k \in Keys |-> undefined]

\* ----------------------------------------------- SimpleSyncRWTransaction
NewTx(s) ==
    [store |-> s,
     originalData |-> [k \in Keys |-> NotStashed],
     modifiedKeys |-> {}]

\* Keep only the earliest value in the transaction.
stashOldValue(t, key, value) ==
    IF t.originalData[key] = NotStashed
    THEN [t EXCEPT !.originalData[key] = value]
    ELSE t

markModified_NoStash(t, key) ==
    [t EXCEPT !.modifiedKeys = @ \cup {key}]

markModified(t, key) ==
    LET t1 == [t EXCEPT !.modifiedKeys = @ \cup {key}]
    IN  IF t1.originalData[key] = NotStashed
        THEN [t1 EXCEPT !.originalData[key] = StoreGet(t1.store, key)]
        ELSE t1

TxGet(t, key) ==
    LET val == StoreGet(t.store, key)
    IN  [val |-> val, t |-> stashOldValue(t, key, val)]

TxPut(t, key, data, overwrite) ==
    LET t1 == markModified(t, key)
        r  == StorePut(t1.store, key, data, overwrite)
    IN  [ok |-> r.ok, t |-> [t1 EXCEPT !.store = r.store]]

TxRemove(t, key) ==
    LET t1 == markModified(t, key)
    IN  [t1 EXCEPT !.store = StoreRemove(t1.store, key)]

\* `!value`: Map.get of a key never stashed, or a stashed undefined.
Falsy(v) == v \in {undefined, NotStashed}

\* Rollback: every modified key gets its stashed value back, or is removed.
TxAbort(t) ==
    [t EXCEPT !.store =
        [k \in Keys |->
            IF k \in t.modifiedKeys
            THEN IF Falsy(t.originalData[k])
                 THEN StoreRemove(t.store, k)[k]
                 ELSE StorePut(t.store, k, t.originalData[k], TRUE).store[k]
            ELSE t.store[k]]]

\* commit() is a NOP.
TxCommit(t) == t

\* ------------------------------------------------------------- SpecTx
TxStores == {s \in [Keys -> TxValues \cup {undefined}] :
                \A k \in Keys \ TxKeys : s[k] = undefined}

TxDoGet(key) ==
    /\ txPhase = "open"
    /\ tx' = TxGet(tx, key).t
    /\ UNCHANGED <<txPre, txPhase, txTouched, fsVars, alloc, flagVars, walk, pair>>

TxDoPut(key, data, overwrite) ==
    /\ txPhase = "open"
    /\ tx' = TxPut(tx, key, data, overwrite).t
    /\ UNCHANGED <<txPre, txPhase, txTouched, fsVars, alloc, flagVars, walk, pair>>

TxDoRemove(key) ==
    /\ txPhase = "open"
    /\ tx' = TxRemove(tx, key)
    /\ UNCHANGED <<txPre, txPhase, txTouched, fsVars, alloc, flagVars, walk, pair>>

TxDoAbort ==
    /\ txPhase = "open"
    /\ tx' = TxAbort(tx)
    /\ txPhase' = "aborted"
    /\ txTouched' = {k \in Keys : tx.store[k] # txPre[k]}
    /\ UNCHANGED <<txPre, fsVars, alloc, flagVars, walk, pair>>

TxDoCommit ==
    /\ txPhase = "open"
    /\ tx' = TxCommit(tx)
    /\ txPhase' = "committed"
    /\ UNCHANGED <<txPre, txTouched, fsVars, alloc, flagVars, walk, pair>>

\* beginTransaction('readwrite') on the store as the last transaction left it.
TxDoBegin ==
    /\ txPhase # "open"
    /\ tx' = NewTx(tx.store)
    /\ txPre' = tx.store
    /\ txPhase' = "open"
    /\ txTouched' = {}
    /\ UNCHANGED <<fsVars, alloc, flagVars, walk, pair>>


\* ------------------------------------------------------------------ paths
Sep == "/"
Root == <<Sep>>
\* File and directory names; "a" is a proper prefix of "ab".
Names == {<<"a">>, <<"a", "b">>}
\* Depths of the paths handed to the engine; a rename's destination may lie
\* one level deeper.
PathDepths == 0 .. 2
DestDepths == 0 .. 3

RECURSIVE PathOf(_)
\* The normalized absolute path string of a sequence of names.
PathOf(ns) ==
    IF ns = <<>> THEN Root
    ELSE IF Len(ns) = 1 THEN <<Sep>> \o ns[1]
    ELSE PathOf(SubSeq(ns, 1, Len(ns) - 1)) \o <<Sep>> \o ns[Len(ns)]

\* dirname, basename and join of emulation/path.js on the normalized absolute
\* paths the engine is handed.
LastSep(p) ==
    CHOOSE i \in 1 .. Len(p) :
        p[i] = Sep /\ \A j \in (i + 1) .. Len(p) : p[j] # Sep

dirname(p) ==
    IF LastSep(p) = 1 THEN Root ELSE SubSeq(p, 1, LastSep(p) - 1)

basename(p) == SubSeq(p, LastSep(p) + 1, Len(p))

join(parent, filename) ==
    IF filename = <<>> THEN parent
    ELSE IF parent = Root THEN parent \o filename
    ELSE parent \o <<Sep>> \o filename

\* The same three functions on any string, as path resolution may be handed
\* one.
Dot == <<".">>
DotDot == <<".", ".">>
MaxOf(S) == CHOOSE x \in S : \A y \in S : y <= x

\* dirname: the separators (not the first character)
\* that have a non-separator after them; the last one ends the result.
DirEnds(p) ==
    {i \in 2 .. Len(p) :
        p[i] = Sep /\ \E j \in (i + 1) .. Len(p) : p[j] # Sep}

dirnameAny(p) ==
    IF Len(p) = 0 THEN Dot
    ELSE IF DirEnds(p) = {} THEN (IF p[1] = Sep THEN Root ELSE Dot)
    ELSE IF p[1] = Sep /\ MaxOf(DirEnds(p)) = 2 THEN <<Sep, Sep>>
    ELSE SubSeq(p, 1, MaxOf(DirEnds(p)) - 1)

\* basename: from after the last separator before the last non-separator
\* up to that character.
NonSeps(p) == {i \in 1 .. Len(p) : p[i] # Sep}

basenameAny(p) ==
    IF NonSeps(p) = {} THEN <<>>
    ELSE SubSeq(p,
                1 + MaxOf({0} \cup {i \in 1 .. MaxOf(NonSeps(p)) :
                                       p[i] = Sep}),
                MaxOf(NonSeps(p)))

RECURSIVE Segments(_)
\* path.split('/')
Segments(p) ==
    IF \A i \in 1 .. Len(p) : p[i] # Sep THEN <<p>>
    ELSE <<SubSeq(p, 1,
                  (CHOOSE i \in 1 .. Len(p) :
                      p[i] = Sep /\ \A j \in 1 .. (i - 1) : p[j] # Sep) - 1)>>
         \o Segments(SubSeq(p,
                  (CHOOSE i \in 1 .. Len(p) :
                      p[i] = Sep /\ \A j \in 1 .. (i - 1) : p[j] # Sep) + 1,
                  Len(p)))

RECURSIVE normalizeString(_, _, _)
\* normalizeString: drops empty and '.' segments, resolves '..'.
normalizeString(segs, allowAboveRoot, res) ==
    IF segs = <<>> THEN res
    ELSE IF Head(segs) \in {<<>>, Dot}
    THEN normalizeString(Tail(segs), allowAboveRoot, res)
    ELSE IF Head(segs) # DotDot
    THEN normalizeString(Tail(segs), allowAboveRoot,
                         Append(res, Head(segs)))
    ELSE IF res # <<>> /\ res[Len(res)] # DotDot
    THEN normalizeString(Tail(segs), allowAboveRoot,
                         SubSeq(res, 1, Len(res) - 1))
    ELSE IF allowAboveRoot
    THEN normalizeString(Tail(segs), allowAboveRoot, Append(res, DotDot))
    ELSE normalizeString(Tail(segs), allowAboveRoot, res)

RECURSIVE Glue(_)
\* segments.join('/')
Glue(segs) ==
    IF segs = <<>> THEN <<>>
    ELSE IF Len(segs) = 1 THEN segs[1]
    ELSE segs[1] \o <<Sep>> \o Glue(Tail(segs))

Normalized(p) == Glue(normalizeString(Segments(p), p[1] # Sep, <<>>))

normalize(p) ==
    IF Len(p) = 0 THEN Dot
    ELSE IF Normalized(p) = <<>>
    THEN (IF p[1] = Sep THEN Root
          ELSE IF p[Len(p)] = Sep THEN <<".", Sep>> ELSE Dot)
    ELSE (IF p[1] = Sep THEN <<Sep>> ELSE <<>>)
         \o Normalized(p)
         \o (IF p[Len(p)] = Sep THEN <<Sep>> ELSE <<>>)

\* join: the non-empty arguments glued by '/', normalized.
joinAny(parent, filename) ==
    IF parent = <<>> /\ filename = <<>> THEN Dot
    ELSE IF filename = <<>> THEN normalize(parent)
    ELSE IF parent = <<>> THEN normalize(filename)
    ELSE normalize(parent \o <<Sep>> \o filename)

\* haystack.indexOf(needle) === 0
StartsWith(haystack, needle) ==
    /\ Len(needle) <= Len(haystack)
    /\ SubSeq(haystack, 1, Len(needle)) = needle

\* --------------------------------------------------- inodes, stats, creds
FILE == "FILE"
DIRECTORY == "DIRECTORY"
\* The permission bits of a mode, as the access they give the unprivileged
\* credential.
Perms == {{"r", "w"}, {"r"}, {}}
AllPerms == {"r", "w"}
W_OK == {"w"}
R_OK == {"r"}
Creds == {"root", "user"}

\* The owner and the times of access and modification are those of the
\* creation, written 0, until chown or utimes sets them; the model's clock
\* stands still.
Inode(id, size, type, perm) ==
    [id |-> id, size |-> size, type |-> type, perm |-> perm,
     uid |-> 0, gid |-> 0, atime |-> 0, mtime |-> 0]

\* Inode.toStats(): the metadata without the data key.
toStats(inode) ==
    [size |-> inode.size, type |-> inode.type, perm |-> inode.perm,
     uid |-> inode.uid, gid |-> inode.gid,
     atime |-> inode.atime, mtime |-> inode.mtime]

isFile(stats) == stats.type = FILE
isDirectory(stats) == stats.type = DIRECTORY

\* Stats.hasAccess: root may do anything, anyone else what the mode grants.
hasAccess(stats, mode, cred) ==
    \/ cred = "root"
    \/ mode \subseteq stats.perm

\* Inode.update(stats): copies the fields that differ, reports a change.
InodeChanged(inode, stats) == toStats(inode) # stats

InodeUpdate(inode, stats) ==
    [inode EXCEPT !.size = stats.size, !.type = stats.type,
                  !.perm = stats.perm, !.uid = stats.uid, !.gid = stats.gid,
                  !.atime = stats.atime, !.mtime = stats.mtime]

\* ------------------------------------------------------- directory listings
EmptyListing == [n \in {} |-> ROOT_NODE_ID]
Has(l, name) == name \in DOMAIN l
ListDelete(l, name) == [n \in (DOMAIN l) \ {name} |-> l[n]]
ListSet(l, name, id) ==
    [n \in (DOMAIN l) \cup {name} |-> IF n = name THEN id ELSE l[n]]

\* ------------------------------------------------- results of engine steps
NoVal == [kind |-> "none"]
Ok(val, t) == [err |-> "OK", val |-> val, t |-> t]
Throw(err, t) == [err |-> err, val |-> NoVal, t |-> t]

\* r, then K on what r returned; an exception thrown by r propagates.
Try(r, K(_)) == IF r.err # "OK" THEN r ELSE K(r)

\* getINode: ENOENT if the key is missing, else Inode.Deserialize (which
\* throws on a blob that is no serialized inode).
getINode(t, id) ==
    LET g == TxGet(t, id)
    IN  IF g.val = undefined THEN Throw("ENOENT", g.t)
        ELSE IF g.val.kind # "inode" THEN Throw("RangeError", g.t)
        ELSE Ok(g.val.i, g.t)

getDirListing_AnyType(t, inode) ==
    LET g == TxGet(t, inode.id)
    IN  IF g.val = undefined THEN Throw("ENOENT", g.t)
        ELSE IF g.val.kind # "listing" THEN Throw("SyntaxError", g.t)
        ELSE Ok(g.val.l, g.t)

\* getDirListing: ENOTDIR for a non-directory, ENOENT for a missing blob,
\* else JSON.parse(decode(data)).
getDirListing(t, inode) ==
    IF ~(inode.type = DIRECTORY) THEN Throw("ENOTDIR", t)
    ELSE LET g == TxGet(t, inode.id)
         IN  IF g.val = undefined THEN Throw("ENOENT", g.t)
             ELSE IF g.val.kind # "listing" THEN Throw("SyntaxError", g.t)
             ELSE Ok(g.val.l, g.t)

\* readDirectory of _findINode: the id of filename in the inode's listing.
readDirectory(r, filename) ==
    Try(r, LAMBDA i :
    Try(getDirListing(i.t, i.val), LAMBDA d :
        IF Has(d.val, filename) THEN Ok(d.val[filename], d.t)
        ELSE Throw("ENOENT", d.t)))

RECURSIVE FindINodeId(_, _, _, _)
\* _findINode(tx, parent, filename, visited)
FindINodeId(t, parent, filename, visited) ==
    IF join(parent, filename) \in visited THEN Throw("EIO", t)
    ELSE IF parent = Root
    THEN IF filename = <<>> THEN Ok(ROOT_NODE_ID, t)
         ELSE readDirectory(getINode(t, ROOT_NODE_ID), filename)
    ELSE readDirectory(
            Try(FindINodeId(t, dirname(parent), basename(parent),
                            visited \cup {join(parent, filename)}),
                LAMBDA up : getINode(up.t, up.val)),
            filename)

\* findINode(tx, p)
findINode(t, p) ==
    Try(FindINodeId(t, dirname(p), basename(p), {}),
        LAMBDA r : getINode(r.t, r.val))

\* ------------------------------------------------------ SyncStoreFileSystem
\* What a mutating engine call leaves: the store, the error thrown ("OK" if
\* none), and whether commit() or abort() was called on its transaction.
Done(t, err, closed) == [store |-> t.store, err |-> err, closed |-> closed]

\* r, then K on what r returned; an exception thrown by r leaves the call
\* at once, its transaction neither committed nor aborted.
Escapes(r, K(_)) == IF r.err # "OK" THEN Done(r.t, r.err, FALSE) ELSE K(r)

\* addNewNode against a store whose put does not throw: the first pass of
\* its loop puts with overwrite = false and returns currId, whatever put
\* returned.
addNewNode(t, data, currId) ==
    [id |-> currId, t |-> TxPut(t, currId, data, FALSE).t]

\* makeRootDirectory; rootDataId is the value of randomUUID().
makeRootDirectory(s, rootDataId) ==
    IF TxGet(NewTx(s), ROOT_NODE_ID).val = undefined
    THEN Done(TxCommit(
            TxPut(TxPut(TxGet(NewTx(s), ROOT_NODE_ID).t, rootDataId,
                        Listing(EmptyListing), FALSE).t,
                  ROOT_NODE_ID,
                  InodeBlob(Inode(rootDataId, 4096, DIRECTORY, AllPerms)),
                  FALSE).t),
            "OK", TRUE)
    ELSE Done(TxGet(NewTx(s), ROOT_NODE_ID).t, "OK", FALSE)

\* The test of renameSync that newParent lies in the subtree of oldPath.
IsInside_NoSep(newParent, oldPath) == StartsWith(newParent, oldPath)

IsInside(newParent, oldPath) ==
    StartsWith(newParent \o <<Sep>>, oldPath \o <<Sep>>)

\* The end of renameSync: both listings are put, then commit().  commitThrows
\* is the store's: commit() of SimpleSyncRWTransaction is a NOP and never
\* throws.
RenameCommit_OldOnly(t, oldDirNode, oldDirList, newDirNode, newDirList, commitThrows) ==
    Done(TxCommit(TxPut(t, oldDirNode.id, Listing(oldDirList), TRUE).t),
         "OK", TRUE)

RenameCommit(t, oldDirNode, oldDirList, newDirNode, newDirList, commitThrows) ==
    IF commitThrows
    THEN Done(TxPut(TxPut(t, oldDirNode.id, Listing(oldDirList), TRUE).t,
                    newDirNode.id, Listing(newDirList), TRUE).t,
              "EIO", TRUE)
    ELSE Done(TxCommit(
                TxPut(TxPut(t, oldDirNode.id, Listing(oldDirList), TRUE).t,
                      newDirNode.id, Listing(newDirList), TRUE).t),
              "OK", TRUE)

\* renameSync from the point where both listings are known.  oldDirList has
\* lost oldName already; with equal parents (same) newDirList is the same
\* object, so the name added to the one is added to the other.
RenameInto_KeepTarget(t, newName, nodeId, oldDirNode, oldDirList, newDirNode, newDirList, same, commitThrows) ==
    RenameCommit(t, oldDirNode,
                 IF same THEN ListSet(newDirList, newName, nodeId)
                 ELSE oldDirList,
                 newDirNode, ListSet(newDirList, newName, nodeId),
                 commitThrows)

RenameInto(t, newName, nodeId, oldDirNode, oldDirList, newDirNode, newDirList, same, commitThrows) ==
    IF Has(newDirList, newName)
    THEN Escapes(getINode(t, newDirList[newName]), LAMBDA n :
            IF isFile(toStats(n.val))
            THEN RenameCommit(
                    TxRemove(TxRemove(n.t, n.val.id), newDirList[newName]),
                    oldDirNode,
                    IF same THEN ListSet(newDirList, newName, nodeId)
                    ELSE oldDirList,
                    newDirNode, ListSet(newDirList, newName, nodeId),
                    commitThrows)
            ELSE Done(n.t, "EPERM", FALSE))
    ELSE RenameCommit(t, oldDirNode,
                      IF same THEN ListSet(newDirList, newName, nodeId)
                      ELSE oldDirList,
                      newDirNode, ListSet(newDirList, newName, nodeId),
                      commitThrows)

renameSync(s, oldPath, newPath, cred, commitThrows) ==
    Escapes(findINode(NewTx(s), dirname(oldPath)), LAMBDA oldDirNode :
    Escapes(getDirListing(oldDirNode.t, oldDirNode.val), LAMBDA oldDirList :
        IF ~hasAccess(toStats(oldDirNode.val), W_OK, cred)
        THEN Done(oldDirList.t, "EACCES", FALSE)
        ELSE IF ~Has(oldDirList.val, basename(oldPath))
        THEN Done(oldDirList.t, "ENOENT", FALSE)
        ELSE IF IsInside(dirname(newPath), oldPath)
        THEN Done(oldDirList.t, "EBUSY", FALSE)
        ELSE IF dirname(newPath) = dirname(oldPath)
        THEN RenameInto(oldDirList.t, basename(newPath),
                        oldDirList.val[basename(oldPath)], oldDirNode.val,
                        ListDelete(oldDirList.val, basename(oldPath)),
                        oldDirNode.val,
                        ListDelete(oldDirList.val, basename(oldPath)),
                        TRUE, commitThrows)
        ELSE
        Escapes(findINode(oldDirList.t, dirname(newPath)), LAMBDA newDirNode :
        Escapes(getDirListing(newDirNode.t, newDirNode.val),
                LAMBDA newDirList :
            RenameInto(newDirList.t, basename(newPath),
                       oldDirList.val[basename(oldPath)], oldDirNode.val,
                       ListDelete(oldDirList.val, basename(oldPath)),
                       newDirNode.val, newDirList.val, FALSE,
                       commitThrows)))))

\* What a read-only engine call returns.
Answer(err, val) == [err |-> err, val |-> val]
Fails(r, K(_)) == IF r.err # "OK" THEN Answer(r.err, NoVal) ELSE K(r)

\* statSync: the stats of p.
statSync(s, p, cred) ==
    Fails(findINode(NewTx(s), p), LAMBDA r :
        IF ~hasAccess(toStats(r.val), R_OK, cred)
        THEN Answer("EACCES", NoVal)
        ELSE Answer("OK", toStats(r.val)))

\* readdirSync: the names in the listing of p.
readdirSync(s, p, cred) ==
    Fails(findINode(NewTx(s), p), LAMBDA node :
        IF ~hasAccess(toStats(node.val), R_OK, cred)
        THEN Answer("EACCES", NoVal)
        ELSE Fails(getDirListing(node.t, node.val), LAMBDA d :
                Answer("OK", DOMAIN d.val)))

\* The try block of commitNewFile, and its commit().
CommitNode(t, parentNode, dirListing, fname, type, perm, data, size, dataId, fileNodeId) ==
    LET a1 == addNewNode(t, data, dataId)
        fileNode == Inode(a1.id, size, type, perm)
        a2 == addNewNode(a1.t, InodeBlob(fileNode), fileNodeId)
    IN  Done(TxCommit(TxPut(a2.t, parentNode.id,
                            Listing(ListSet(dirListing, fname, a2.id)),
                            TRUE).t),
             "OK", TRUE)

commitNewFile_NoGuard(t0, p, type, perm, cred, data, size, dataId, fileNodeId) ==
    Escapes(findINode(t0, dirname(p)), LAMBDA parentNode :
    Escapes(getDirListing(parentNode.t, parentNode.val), LAMBDA dirListing :
        IF p = Root THEN Done(dirListing.t, "EEXIST", FALSE)
        ELSE IF Has(dirListing.val, basename(p))
        THEN Done(dirListing.t, "EEXIST", FALSE)
        ELSE CommitNode(dirListing.t, parentNode.val, dirListing.val,
                        basename(p), type, perm, data, size, dataId,
                        fileNodeId)))

\* commitNewFile; dataId and fileNodeId are the two values of randomUUID().
commitNewFile(t0, p, type, perm, cred, data, size, dataId, fileNodeId) ==
    Escapes(findINode(t0, dirname(p)), LAMBDA parentNode :
    Escapes(getDirListing(parentNode.t, parentNode.val), LAMBDA dirListing :
        IF ~hasAccess(toStats(parentNode.val), W_OK, cred)
        THEN Done(dirListing.t, "EACCES", FALSE)
        ELSE IF p = Root THEN Done(dirListing.t, "EEXIST", FALSE)
        ELSE IF Has(dirListing.val, basename(p))
        THEN Done(dirListing.t, "EEXIST", FALSE)
        ELSE CommitNode(dirListing.t, parentNode.val, dirListing.val,
                        basename(p), type, perm, data, size, dataId,
                        fileNodeId)))

\* mkdirSync: the data of a new directory is encode('{}'), two bytes.
mkdirSync(s, p, perm, cred, dataId, fileNodeId) ==
    commitNewFile(NewTx(s), p, DIRECTORY, perm, cred, Listing(EmptyListing),
                  2, dataId, fileNodeId)

removeEntry_AnyType(s, p, isDir, cred) ==
    Escapes(findINode(NewTx(s), dirname(p)), LAMBDA parentNode :
    Escapes(getDirListing(parentNode.t, parentNode.val),
            LAMBDA parentListing :
        IF ~Has(parentListing.val, basename(p))
        THEN Done(parentListing.t, "ENOENT", FALSE)
        ELSE
        Escapes(getINode(parentListing.t, parentListing.val[basename(p)]),
                LAMBDA fileNode :
            IF ~hasAccess(toStats(fileNode.val), W_OK, cred)
            THEN Done(fileNode.t, "EACCES", FALSE)
            ELSE Done(TxCommit(
                        TxPut(TxRemove(TxRemove(fileNode.t, fileNode.val.id),
                                       parentListing.val[basename(p)]),
                              parentNode.val.id,
                              Listing(ListDelete(parentListing.val,
                                                 basename(p))),
                              TRUE).t),
                      "OK", TRUE))))

removeEntry(s, p, isDir, cred) ==
    Escapes(findINode(NewTx(s), dirname(p)), LAMBDA parentNode :
    Escapes(getDirListing(parentNode.t, parentNode.val),
            LAMBDA parentListing :
        IF ~Has(parentListing.val, basename(p))
        THEN Done(parentListing.t, "ENOENT", FALSE)
        ELSE
        Escapes(getINode(parentListing.t, parentListing.val[basename(p)]),
                LAMBDA fileNode :
            IF ~hasAccess(toStats(fileNode.val), W_OK, cred)
            THEN Done(fileNode.t, "EACCES", FALSE)
            ELSE IF ~isDir /\ isDirectory(toStats(fileNode.val))
            THEN Done(fileNode.t, "EISDIR", FALSE)
            ELSE IF isDir /\ ~isDirectory(toStats(fileNode.val))
            THEN Done(fileNode.t, "ENOTDIR", FALSE)
            ELSE Done(TxCommit(
                        TxPut(TxRemove(TxRemove(fileNode.t, fileNode.val.id),
                                       parentListing.val[basename(p)]),
                              parentNode.val.id,
                              Listing(ListDelete(parentListing.val,
                                                 basename(p))),
                              TRUE).t),
                      "OK", TRUE))))

unlinkSync(s, p, cred) == removeEntry(s, p, FALSE, cred)

\* No read-write transaction was begun: none is left open.
Refused(s, err) == [store |-> s, err |-> err, closed |-> TRUE]

rmdirSync_NoGuard(s, p, cred) == removeEntry(s, p, TRUE, cred)

\* rmdirSync: readdirSync first, then removeEntry.
rmdirSync(s, p, cred) ==
    IF readdirSync(s, p, cred).err # "OK"
    THEN Refused(s, readdirSync(s, p, cred).err)
    ELSE IF Cardinality(readdirSync(s, p, cred).val) > 0
    THEN Refused(s, "ENOTEMPTY")
    ELSE removeEntry(s, p, TRUE, cred)

\* ------------------------------------------------------------ blob lengths
\* The length of a randomUUID() string, quoted in a listing's JSON.
UuidLen == 36

RECURSIVE EntriesLen(_, _)
\* The characters the entries of names take in JSON.stringify(listing):
\* "name":"uuid" for each, with a comma between two.
EntriesLen(l, names) ==
    IF names = {} THEN 0
    ELSE LET n == CHOOSE m \in names : TRUE
         IN  (Len(n) + 2) + 1 + (UuidLen + 2)
             + (IF names = {n} THEN 0 ELSE 1)
             + EntriesLen(l, names \ {n})

\* byteLength of the blob a key holds: the bytes of a file, the encoded
\* JSON text of a listing.
BlobLen(v) ==
    IF v.kind = "bytes" THEN Len(v.b)
    ELSE IF v.kind = "listing" THEN 2 + EntriesLen(v.l, DOMAIN v.l)
    ELSE -1

\* The character codes of encode(JSON.stringify(listing)).
CodeOf(ch) == IF ch = "a" THEN 97 ELSE IF ch = "b" THEN 98 ELSE 46
NameBytes(n) == [i \in 1 .. Len(n) |-> CodeOf(n[i])]
\* The key k as the string randomUUID() returned: 36 characters.
UuidBytes(k) == [i \in 1 .. UuidLen |-> 48 + k]

RECURSIVE EntriesBytes(_, _)
EntriesBytes(l, names) ==
    IF names = {} THEN <<>>
    ELSE LET n == CHOOSE m \in names : TRUE
         IN  <<34>> \o NameBytes(n) \o <<34, 58, 34>> \o UuidBytes(l[n])
             \o <<34>> \o (IF names = {n} THEN <<>> ELSE <<44>>)
             \o EntriesBytes(l, names \ {n})

JsonBytes(l) == <<123>> \o EntriesBytes(l, DOMAIN l) \o <<125>>

\* The bytes tx.get returns for a blob.
BytesOf(v) == IF v.kind = "listing" THEN JsonBytes(v.l) ELSE v.b

\* The listings a blob can be the JSON text of.
AllListings ==
    UNION {[D -> Keys] : D \in SUBSET (Names \cup {<<>>})}

\* The blob a data key holds once data is put there: a listing if the bytes
\* are the JSON text of one.
BlobOf(data) ==
    IF Len(data) < 2 THEN Bytes(data)
    ELSE IF data[1] # 123 THEN Bytes(data)
    ELSE IF \E l \in AllListings : JsonBytes(l) = data
    THEN Listing(CHOOSE l \in AllListings : JsonBytes(l) = data)
    ELSE Bytes(data)

syncSync_NoInode(s, p, data, stats) ==
    Escapes(FindINodeId(NewTx(s), dirname(p), basename(p), {}),
            LAMBDA fileInodeId :
    Escapes(getINode(fileInodeId.t, fileInodeId.val), LAMBDA fileInode :
        Done(TxCommit(TxPut(fileInode.t, fileInode.val.id, BlobOf(data),
                            TRUE).t),
             "OK", TRUE)))

SyncPuts_Both(t, fileInodeId, fileInode, data, stats) ==
    TxPut(TxPut(t, fileInode.id, BlobOf(data), TRUE).t, fileInodeId,
          InodeBlob(InodeUpdate(fileInode, stats)), TRUE).t

\* The try block of syncSync: the data is put always, the inode if
\* fileInode.update(stats) reported a change.
SyncPuts(t, fileInodeId, fileInode, data, stats) ==
    IF InodeChanged(fileInode, stats)
    THEN TxPut(TxPut(t, fileInode.id, BlobOf(data), TRUE).t, fileInodeId,
               InodeBlob(InodeUpdate(fileInode, stats)), TRUE).t
    ELSE TxPut(t, fileInode.id, BlobOf(data), TRUE).t

\* syncSync(p, data, stats) of the engine.
syncSync(s, p, data, stats) ==
    Escapes(FindINodeId(NewTx(s), dirname(p), basename(p), {}),
            LAMBDA fileInodeId :
    Escapes(getINode(fileInodeId.t, fileInodeId.val), LAMBDA fileInode :
        Done(TxCommit(SyncPuts(fileInode.t, fileInodeId.val, fileInode.val,
                               data, stats)),
             "OK", TRUE)))

\* ------------------------------------------------------------------ FileFlag
Flags == {<<"r">>, <<"r", "+">>, <<"w">>, <<"r", "s", "+">>}
Contains(flag, ch) == \E i \in 1 .. Len(flag) : flag[i] = ch
isReadable(flag) == Contains(flag, "r") \/ Contains(flag, "+")
isWriteable(flag) ==
    Contains(flag, "w") \/ Contains(flag, "a") \/ Contains(flag, "+")
isSynchronous(flag) == Contains(flag, "s")
\* FileFlag.mode: the read and write bits the flag asks for.
flagMode(flag) ==
    (IF isReadable(flag) THEN {"r"} ELSE {}) \cup
    (IF isWriteable(flag) THEN {"w"} ELSE {})

isTruncating(flag) == Contains(flag, "w")
isAppendable(flag) == Contains(flag, "a")
isExclusive(flag) == Contains(flag, "x")

\* ActionType
NOP == "NOP"
THROW == "THROW"
TRUNCATE == "TRUNCATE"
CREATE == "CREATE"

pathExistsAction(flag) ==
    IF isExclusive(flag) THEN THROW
    ELSE IF isTruncating(flag) THEN TRUNCATE
    ELSE NOP

pathNotExistsAction_AnyWriter(flag) ==
    IF isWriteable(flag) \/ isAppendable(flag) THEN CREATE ELSE THROW

pathNotExistsAction(flag) ==
    IF (isWriteable(flag) \/ isAppendable(flag)) /\ flag # <<"r", "+">>
    THEN CREATE
    ELSE THROW

\* The open(2) constants of emulation/constants.js.
O_RDONLY == 0
O_WRONLY == 1
O_RDWR == 2
O_CREAT == 64
O_EXCL == 128
O_TRUNC == 512
O_APPEND == 1024
O_SYNC == 1052672

RECURSIVE BitOr(_, _)
\* a | b on non-negative integers.
BitOr(a, b) ==
    IF a = 0 THEN b
    ELSE IF b = 0 THEN a
    ELSE (IF a % 2 = 1 \/ b % 2 = 1 THEN 1 ELSE 0)
         + 2 * BitOr(a \div 2, b \div 2)

Or3(a, b, c) == BitOr(BitOr(a, b), c)
Or4(a, b, c, d) == BitOr(Or3(a, b, c), d)

\* The string literals of FileFlag as character sequences.
F_r == <<"r">>
F_rs == <<"r", "s">>
F_rp == <<"r", "+">>
F_rsp == <<"r", "s", "+">>
F_w == <<"w">>
F_wx == <<"w", "x">>
F_wp == <<"w", "+">>
F_wxp == <<"w", "x", "+">>
F_a == <<"a">>
F_ax == <<"a", "x">>
F_ap == <<"a", "+">>
F_axp == <<"a", "x", "+">>

validStrings ==
    {F_r, F_rp, F_rs, F_rsp, F_w, F_wx, F_wp, F_wxp, F_a, F_ax, F_ap, F_axp}

\* FileFlag.StringOf: the switch over the flag number.
StringOf(flag) ==
    IF flag = O_RDONLY THEN Answer("OK", F_r)
    ELSE IF flag = BitOr(O_RDONLY, O_SYNC) THEN Answer("OK", F_rs)
    ELSE IF flag = O_RDWR THEN Answer("OK", F_rp)
    ELSE IF flag = BitOr(O_RDWR, O_SYNC) THEN Answer("OK", F_rsp)
    ELSE IF flag = Or3(O_TRUNC, O_CREAT, O_WRONLY) THEN Answer("OK", F_w)
    ELSE IF flag = Or4(O_TRUNC, O_CREAT, O_WRONLY, O_EXCL)
    THEN Answer("OK", F_wx)
    ELSE IF flag = Or3(O_TRUNC, O_CREAT, O_RDWR) THEN Answer("OK", F_wp)
    ELSE IF flag = Or4(O_TRUNC, O_CREAT, O_RDWR, O_EXCL)
    THEN Answer("OK", F_wxp)
    ELSE IF flag = Or3(O_APPEND, O_CREAT, O_WRONLY) THEN Answer("OK", F_a)
    ELSE IF flag = Or4(O_APPEND, O_CREAT, O_WRONLY, O_EXCL)
    THEN Answer("OK", F_ax)
    ELSE IF flag = Or3(O_APPEND, O_CREAT, O_RDWR) THEN Answer("OK", F_ap)
    ELSE IF flag = Or4(O_APPEND, O_CREAT, O_RDWR, O_EXCL)
    THEN Answer("OK", F_axp)
    ELSE Answer("EINVAL", <<>>)

NumberOf_NoSync(flag) ==
    IF flag \in {F_r, F_rs} THEN Answer("OK", O_RDONLY)
    ELSE IF flag \in {F_rp, F_rsp} THEN Answer("OK", O_RDWR)
    ELSE Answer("EINVAL", -1)

\* FileFlag.NumberOf: the switch over the flag string.
NumberOf(flag) ==
    IF flag = F_r THEN Answer("OK", O_RDONLY)
    ELSE IF flag = F_rs THEN Answer("OK", BitOr(O_RDONLY, O_SYNC))
    ELSE IF flag = F_rp THEN Answer("OK", O_RDWR)
    ELSE IF flag = F_rsp THEN Answer("OK", BitOr(O_RDWR, O_SYNC))
    ELSE IF flag = F_w THEN Answer("OK", Or3(O_TRUNC, O_CREAT, O_WRONLY))
    ELSE IF flag = F_wx
    THEN Answer("OK", Or4(O_TRUNC, O_CREAT, O_WRONLY, O_EXCL))
    ELSE IF flag = F_wp THEN Answer("OK", Or3(O_TRUNC, O_CREAT, O_RDWR))
    ELSE IF flag = F_wxp
    THEN Answer("OK", Or4(O_TRUNC, O_CREAT, O_RDWR, O_EXCL))
    ELSE IF flag = F_a THEN Answer("OK", Or3(O_APPEND, O_CREAT, O_WRONLY))
    ELSE IF flag = F_ax
    THEN Answer("OK", Or4(O_APPEND, O_CREAT, O_WRONLY, O_EXCL))
    ELSE IF flag = F_ap THEN Answer("OK", Or3(O_APPEND, O_CREAT, O_RDWR))
    ELSE IF flag = F_axp
    THEN Answer("OK", Or4(O_APPEND, O_CREAT, O_RDWR, O_EXCL))
    ELSE Answer("EINVAL", -1)

\* new FileFlag(flag) for a string: the _flag of the object, or EINVAL.
NewFileFlag(flag) ==
    IF flag \notin validStrings THEN Answer("EINVAL", <<>>)
    ELSE Answer("OK", flag)

\* new FileFlag(flag) for a number: StringOf first, which may throw.
NewFileFlagOfNumber(flag) ==
    IF StringOf(flag).err # "OK" THEN StringOf(flag)
    ELSE NewFileFlag(StringOf(flag).val)

\* --------------------------------------------- PreloadFile / SyncStoreFile
NoFile == [kind |-> "nofile"]
Zeros(n) == [i \in 1 .. n |-> 0]
Max(a, b) == IF a >= b THEN a ELSE b
Min(a, b) == IF a <= b THEN a ELSE b

\* What opening returns: the handle, or the error thrown.
Opened(err, f) == [err |-> err, file |-> f]

\* new SyncStoreFile(fs, path, flag, stats, contents): dirty from the start
\* if the sizes differ and the flag is not readable; a readable flag throws.
\* pos is _position.  exp, hist and ret are history fields: the length the
\* calls made on the handle should have established, what these calls were,
\* and what the last writeSync or readSync returned; node is the data key
\* of the node the handle was opened on, which the handle does not hold.
NewFile(path, flag, stats, buffer, hist) ==
    IF stats.size = Len(buffer)
    THEN Opened("OK", [kind |-> "file", path |-> path, flag |-> flag,
                       stats |-> stats, buffer |-> buffer, dirty |-> FALSE,
                       pos |-> 0, ret |-> 0,
                       exp |-> stats.size, hist |-> hist, node |-> -1])
    ELSE IF isReadable(flag) THEN Opened("Error", NoFile)
    ELSE Opened("OK", [kind |-> "file", path |-> path, flag |-> flag,
                       stats |-> stats, buffer |-> buffer, dirty |-> TRUE,
                       pos |-> 0, ret |-> 0,
                       exp |-> stats.size, hist |-> hist, node |-> -1])

OpenFails(r, K(_)) == IF r.err # "OK" THEN Opened(r.err, NoFile) ELSE K(r)

\* The handle of o was opened on the node whose data key is id.
OpenedOn(o, id) ==
    IF o.err # "OK" THEN o ELSE [o EXCEPT !.file.node = id]

\* openFileSync: the handle gets the bytes of the inode's data blob.
openFileSync(s, p, flag, cred, hist) ==
    OpenFails(findINode(NewTx(s), p), LAMBDA node :
        IF ~hasAccess(toStats(node.val), flagMode(flag), cred)
        THEN Opened("EACCES", NoFile)
        ELSE IF TxGet(node.t, node.val.id).val = undefined
        THEN Opened("ENOENT", NoFile)
        ELSE OpenedOn(NewFile(p, flag, toStats(node.val),
                              BytesOf(TxGet(node.t, node.val.id).val), hist),
                      node.val.id))

\* What a call that may write the store and yield or change a handle leaves:
\* the store, the handle, the error thrown, and whether every read-write
\* transaction it began was committed or aborted.
FileDone(s, f, err, closed) ==
    [store |-> s, file |-> f, err |-> err, closed |-> closed]

\* createFileSync once commitNewFile left c: openFileSync on the store it
\* committed, unless it threw.
OpenCreated(c, p, flag, cred) ==
    IF c.err # "OK" THEN FileDone(c.store, NoFile, c.err, c.closed)
    ELSE FileDone(c.store, openFileSync(c.store, p, flag, cred, "created").file,
                  openFileSync(c.store, p, flag, cred, "created").err,
                  c.closed)

\* createFileSync: commitNewFile in a read-write transaction, then
\* openFileSync.
createFileSync(s, p, flag, perm, cred, dataId, fileNodeId) ==
    OpenCreated(commitNewFile(NewTx(s), p, FILE, perm, cred, Bytes(<<>>), 0,
                              dataId, fileNodeId),
                p, flag, cred)

Synced_Reset(f, r) ==
    FileDone(r.store, [f EXCEPT !.dirty = FALSE], r.err, r.closed)

\* SyncStoreFile.syncSync once the engine's syncSync returned r: resetDirty
\* unless it threw.
Synced(f, r) ==
    IF r.err # "OK" THEN FileDone(r.store, f, r.err, r.closed)
    ELSE FileDone(r.store, [f EXCEPT !.dirty = FALSE], "OK", r.closed)

\* SyncStoreFile.syncSync: the engine's syncSync, if dirty.
FileSyncSync(s, f) ==
    IF f.dirty THEN Synced(f, syncSync(s, f.path, f.buffer, f.stats))
    ELSE FileDone(s, f, "OK", TRUE)

Slice_FromStart(buffer, offset, length) ==
    SubSeq(buffer, 1, Min(length, Len(buffer)))

\* buffer.slice(offset, offset + length)
Slice(buffer, offset, length) ==
    SubSeq(buffer, offset + 1, Min(offset + length, Len(buffer)))

\* this._buffer.byteOffset: every buffer a handle holds begins its
\* ArrayBuffer (new Uint8Array(), encode(), new Uint8Array(new ArrayBuffer),
\* subarray(0, len)).
ByteOffset == 0

\* The position getter: the size under an append flag.
PositionOf(f) == IF isAppendable(f.flag) THEN f.stats.size ELSE f.pos

\* A position argument of null.
Null == -1

\* position ??= this.position
PositionOr(f, position) == IF position = Null THEN PositionOf(f) ELSE position

WriteInto_NoFlush(s, f, src, position) ==
    IF position + Len(src) > Len(f.buffer)
    THEN FileDone(s, f, "RangeError", TRUE)
    ELSE FileDone(s, [f EXCEPT !.buffer =
                        [i \in 1 .. Len(f.buffer) |->
                            IF i > position /\ i <= position + Len(src)
                            THEN src[i - position] ELSE f.buffer[i]],
                               !.ret = ByteOffset,
                               !.pos = position + ByteOffset],
                  "OK", TRUE)

\* this._buffer.set(src, position) and const len = this._buffer.byteOffset,
\* then the flush of a synchronous flag, which returns len, or
\* this.position = position + len.
WriteInto(s, f, src, position) ==
    IF position + Len(src) > Len(f.buffer)
    THEN FileDone(s, f, "RangeError", TRUE)
    ELSE IF isSynchronous(f.flag)
    THEN FileSyncSync(s, [f EXCEPT !.buffer =
                            [i \in 1 .. Len(f.buffer) |->
                                IF i > position /\ i <= position + Len(src)
                                THEN src[i - position] ELSE f.buffer[i]],
                                   !.ret = ByteOffset])
    ELSE FileDone(s, [f EXCEPT !.buffer =
                        [i \in 1 .. Len(f.buffer) |->
                            IF i > position /\ i <= position + Len(src)
                            THEN src[i - position] ELSE f.buffer[i]],
                               !.ret = ByteOffset,
                               !.pos = position + ByteOffset],
                  "OK", TRUE)

WriteAt_KeepSize(s, f, buffer, offset, length, position) ==
    IF ~isWriteable(f.flag)
    THEN FileDone(s, [f EXCEPT !.dirty = TRUE], "EPERM", TRUE)
    ELSE WriteInto(s,
            [f EXCEPT !.dirty = TRUE,
                      !.buffer = IF position + length > Len(f.buffer)
                                 THEN f.buffer \o
                                      Zeros(position + length - Len(f.buffer))
                                 ELSE f.buffer],
            Slice(buffer, offset, length), position)

\* PreloadFile.writeSync from the test of the flag on, position being a
\* number.
WriteAt(s, f, buffer, offset, length, position) ==
    IF ~isWriteable(f.flag)
    THEN FileDone(s, [f EXCEPT !.dirty = TRUE], "EPERM", TRUE)
    ELSE IF position + length > f.stats.size
    THEN WriteInto(s,
            [f EXCEPT !.dirty = TRUE,
                      !.stats.size = position + length,
                      !.buffer = IF position + length > Len(f.buffer)
                                 THEN f.buffer \o
                                      Zeros(position + length - Len(f.buffer))
                                 ELSE f.buffer],
            Slice(buffer, offset, length), position)
    ELSE WriteInto(s, [f EXCEPT !.dirty = TRUE],
                   Slice(buffer, offset, length), position)

\* PreloadFile.writeSync(buffer, offset, length, position)
writeSync(s, f, buffer, offset, length, position) ==
    WriteAt(s, f, buffer, offset, length, PositionOr(f, position))

FileThen(w, K(_)) == IF w.err # "OK" THEN w ELSE K(w)

\* What readSync leaves: the handle, the caller's buffer, the error thrown;
\* the handle's ret is what it returned.
Read(f, buffer, err) == [file |-> f, buffer |-> buffer, err |-> err]

ReadEnd_Unclamped(f, length, position) == position + length

\* The end of the range readSync reads from position on.
ReadEnd(f, length, position) ==
    IF position + length > f.stats.size
    THEN position + Max(f.stats.size - position, 0)
    ELSE position + length

\* buffer.set(src, offset) on the caller's buffer, _position being end
\* already.
CopyOut(f, buffer, offset, src, position, end) ==
    IF end - position = 0
    THEN Read([f EXCEPT !.pos = end, !.ret = 0], buffer, "OK")
    ELSE IF offset + Len(src) > Len(buffer)
    THEN Read([f EXCEPT !.pos = end], buffer, "RangeError")
    ELSE Read([f EXCEPT !.pos = end, !.ret = end - position],
              [i \in 1 .. Len(buffer) |->
                  IF i > offset /\ i <= offset + Len(src)
                  THEN src[i - offset] ELSE buffer[i]],
              "OK")

\* PreloadFile.readSync from the test of the flag on, position being a
\* number.
ReadAt(f, buffer, offset, length, position) ==
    IF ~isReadable(f.flag) THEN Read(f, buffer, "EPERM")
    ELSE CopyOut(f, buffer, offset,
                  Slice(f.buffer, position,
                        ReadEnd(f, length, position) - position),
                  position, ReadEnd(f, length, position))

\* PreloadFile.readSync(buffer, offset, length, position)
readSync(f, buffer, offset, length, position) ==
    ReadAt(f, buffer, offset, length, PositionOr(f, position))

\* The metadata of SyncStoreFileSystem, the file system of every handle the
\* engine makes; this.fs.metadata() in PreloadFile is read as this member.
metadata ==
    [readonly |-> FALSE, supportsLinks |-> FALSE,
     supportsProperties |-> TRUE, synchronous |-> TRUE]

\* if (this.flag.isSynchronous() && this.fs.metadata().synchronous)
\* this.syncSync()
SyncIfSynchronous(s, f) ==
    IF isSynchronous(f.flag) /\ metadata.synchronous THEN FileSyncSync(s, f)
    ELSE FileDone(s, f, "OK", TRUE)

truncateSync_KeepSize(s, f, len) ==
    IF ~isWriteable(f.flag)
    THEN FileDone(s, [f EXCEPT !.dirty = TRUE], "EPERM", TRUE)
    ELSE IF len > Len(f.buffer)
    THEN FileThen(writeSync(s, [f EXCEPT !.dirty = TRUE],
                            Zeros(len - Len(f.buffer)), 0,
                            len - Len(f.buffer), Len(f.buffer)),
                  LAMBDA w : SyncIfSynchronous(w.store, w.file))
    ELSE SyncIfSynchronous(s, [f EXCEPT !.dirty = TRUE,
                                        !.buffer = SubSeq(f.buffer, 1, len)])

\* PreloadFile.truncateSync(len)
truncateSync(s, f, len) ==
    IF ~isWriteable(f.flag)
    THEN FileDone(s, [f EXCEPT !.dirty = TRUE], "EPERM", TRUE)
    ELSE IF len > Len(f.buffer)
    THEN FileThen(writeSync(s, [f EXCEPT !.dirty = TRUE],
                            Zeros(len - Len(f.buffer)), 0,
                            len - Len(f.buffer), Len(f.buffer)),
                  LAMBDA w : SyncIfSynchronous(w.store, w.file))
    ELSE SyncIfSynchronous(s, [f EXCEPT !.dirty = TRUE, !.stats.size = len,
                                        !.buffer = SubSeq(f.buffer, 1, len)])

closeSync_NoFlush(s, f) == FileDone(s, f, "OK", TRUE)

\* closeSync is syncSync.
closeSync(s, f) == FileSyncSync(s, f)

\* ------------------------------------------------- the loop of addNewNode
\* What tx.put(currId, data, false) of the store under addNewNode does:
\* it stores, or it reports a collision by returning false, or by throwing.
PutKinds == {"stores", "refuses", "throws"}
\* The data handed to addNewNode.
AllocData == {Bytes(<<>>), Bytes(<<1>>), Listing(EmptyListing)}

\* No call of addNewNode is running.
NoAlloc ==
    [pc |-> "idle", put |-> "stores", data |-> Bytes(<<>>), retries |-> 0,
     attempts |-> 0, currId |-> ROOT_NODE_ID]

\* addNewNode is called: `const retries = 0`.
AllocCall(put, data) ==
    /\ alloc.pc = "idle"
    /\ alloc' = [NoAlloc EXCEPT !.pc = "loop", !.put = put, !.data = data]
    /\ UNCHANGED <<txVars, fsVars, flagVars, walk, pair>>

\* One evaluation of `while (retries < 5)` and, if it holds, one pass of the
\* body: currId = randomUUID(), the put, and either the return or the empty
\* catch.  Nothing assigns retries.
AllocPass(id) ==
    /\ alloc.pc = "loop"
    /\ alloc.attempts < MaxAttempts
    /\ alloc' = IF ~(alloc.retries < RetryLimit)
                THEN [alloc EXCEPT !.pc = "EIO"]
                ELSE IF alloc.put = "throws"
                THEN [alloc EXCEPT !.attempts = @ + 1, !.currId = id]
                ELSE [alloc EXCEPT !.attempts = @ + 1, !.currId = id,
                                   !.pc = "returned"]
    /\ UNCHANGED <<txVars, fsVars, flagVars, walk, pair>>

\* The caller goes on.
AllocDone ==
    /\ alloc.pc \in {"returned", "EIO"}
    /\ alloc' = NoAlloc
    /\ UNCHANGED <<txVars, fsVars, flagVars, walk, pair>>

\* Stats.chmod(mode): the permission bits change, the type stays.
StatsChmod(stats, perm) == [stats EXCEPT !.perm = perm]

\* Stats.chown(uid, gid)
StatsChown(stats, uid, gid) == [stats EXCEPT !.uid = uid, !.gid = gid]

PropertySync_NoTest(s, f0, md, f) == FileSyncSync(s, f)

\* The test of this.fs.metadata().supportsProperties that begins chmodSync,
\* chownSync and utimesSync of a handle, md being what metadata() returns;
\* f is the handle f0 with _dirty and the stats set, which syncSync flushes.
PropertySync(s, f0, md, f) ==
    IF ~md.supportsProperties THEN FileDone(s, f0, "ENOTSUP", TRUE)
    ELSE FileSyncSync(s, f)

\* PreloadFile.chmodSync(mode)
FileChmodSync(s, f, md, perm) ==
    PropertySync(s, f, md, [f EXCEPT !.dirty = TRUE,
                                     !.stats = StatsChmod(f.stats, perm)])

\* PreloadFile.chownSync(uid, gid)
FileChownSync(s, f, md, uid, gid) ==
    PropertySync(s, f, md, [f EXCEPT !.dirty = TRUE,
                                     !.stats = StatsChown(f.stats, uid, gid)])

\* PreloadFile.utimesSync(atime, mtime)
FileUtimesSync(s, f, md, atime, mtime) ==
    PropertySync(s, f, md, [f EXCEPT !.dirty = TRUE, !.stats.atime = atime,
                                     !.stats.mtime = mtime])

\* chmodSync of the engine: openFileSync with 'r+', then the handle's
\* chmodSync.
chmodSync(s, p, perm, cred) ==
    IF openFileSync(s, p, <<"r", "+">>, cred, "other").err # "OK"
    THEN Refused(s, openFileSync(s, p, <<"r", "+">>, cred, "other").err)
    ELSE FileChmodSync(s, openFileSync(s, p, <<"r", "+">>, cred, "other").file,
                       metadata, perm)

\* chownSync of the engine, likewise.
chownSync(s, p, uid, gid, cred) ==
    IF openFileSync(s, p, <<"r", "+">>, cred, "other").err # "OK"
    THEN Refused(s, openFileSync(s, p, <<"r", "+">>, cred, "other").err)
    ELSE FileChownSync(s, openFileSync(s, p, <<"r", "+">>, cred, "other").file,
                       metadata, uid, gid)

\* empty(): store.clear(), then makeRootDirectory.
empty(s, rootDataId) == makeRootDirectory(EmptyStore, rootDataId)

\* ------------------------------------------------------- inputs of calls
Front(ns) == SubSeq(ns, 1, Len(ns) - 1)
\* Paths as sequences of names, root first.
NameSeqs == UNION {[1 .. d -> Names] : d \in PathDepths}
\* Destinations of a rename: never the root.
DestSeqs == UNION {[1 .. d -> Names] : d \in DestDepths \ {0}}
\* Paths of the files a handle is opened on.
FileSeqs == {<<n>> : n \in {<<"a">>}}
WriteBytes == {1}
\* Non-empty payloads of a write.
Payloads == UNION {[1 .. n -> WriteBytes] : n \in 1 .. MaxLen}

Unused(s) == {k \in UUIDs : s[k] = undefined}
MinOf(S) == CHOOSE x \in S : \A y \in S : x <= y
\* randomUUID() returning keys not in the store: which ones does not matter,
\* so the two lowest are taken.
FreshPairs(s) ==
    IF Cardinality(Unused(s)) < 2 THEN {}
    ELSE {<<MinOf(Unused(s)), MinOf(Unused(s) \ {MinOf(Unused(s))})>>}
\* randomUUID() returning any keys, used ones included; of the unused ones
\* the two lowest stand for all.
AnyPairs(s) ==
    (((UUIDs \ Unused(s)) \cup UNION {{p[1], p[2]} : p \in FreshPairs(s)})
     \X
     ((UUIDs \ Unused(s)) \cup UNION {{p[1], p[2]} : p \in FreshPairs(s)}))

\* The inode keys, and the entries of the listings the inodes point to.
InodeKeys(s) == {k \in Keys : s[k].kind = "inode"}
Entries(s) ==
    {<<k, n>> \in InodeKeys(s) \X (Names \cup {<<>>}) :
        /\ s[s[k].i.id].kind = "listing"
        /\ n \in DOMAIN s[s[k].i.id].l}
EntryId(s, e) == s[s[e[1]].i.id].l[e[2]]

\* Non-root nodes of the store: the entries of its directories.
NodeCount(s) == Cardinality(Entries(s))

\* ------------------------------------------------- what a call is seen to do
\* A directory inode of s whose listing had an entry is no longer in s2.
LostDirectory(s, s2) ==
    \E k \in UUIDs :
        /\ s[k].kind = "inode"
        /\ s[k].i.type = DIRECTORY
        /\ s[s[k].i.id].kind = "listing"
        /\ DOMAIN s[s[k].i.id].l # {}
        /\ s2[k] = undefined

\* The size statSync reports for p to the superuser, -1 if it throws.
SizeOf(s, p) ==
    IF statSync(s, p, "root").err = "OK"
    THEN statSync(s, p, "root").val.size ELSE -1

NoCall ==
    [op |-> "none", err |-> "OK", closed |-> TRUE, changed |-> FALSE,
     lost |-> FALSE, tag |-> "none", path |-> Root, gone |-> FALSE,
     after |-> FALSE, was |-> 0, n |-> 0, want |-> 0, hist |-> "none",
     flushed |-> FALSE, wparent |-> "none", dest |-> "none",
     replaced |-> FALSE, moved |-> "none", wasDirty |-> FALSE,
     dirty |-> FALSE, cursor |-> "none", append |-> "none",
     kept |-> "none", bind |-> "none",
     found |-> Answer("none", NoVal), ref |-> Answer("none", NoVal)]

\* The record of an engine call that left r.
Obs(op, r, tag, path, after) ==
    [NoCall EXCEPT !.op = op, !.err = r.err, !.closed = r.closed,
                   !.changed = (r.store # store),
                   !.lost = LostDirectory(store, r.store),
                   !.tag = tag,
                   !.path = IF r.err = "OK" THEN path ELSE Root,
                   !.gone = (findINode(NewTx(r.store), path).err = "ENOENT"),
                   !.after = after]

\* The keys of the node whose data key is id: id and the keys of the inodes
\* that hold it.
NodeKeys(s, id) ==
    {id} \cup {k \in Keys : s[k].kind = "inode" /\ s[k].i.id = id}

\* What a syncSync or closeSync of the dirty handle f did to the store s,
\* leaving w.  The path of f still naming the node f was opened on: "own" if
\* no key but that node's changed.  The path naming nothing: "refused" if
\* the call threw ENOENT, left the store as it was and the handle dirty.
\* The path naming another node: "spared" if the store is as it was.
BindTag(s, f, w) ==
    IF ~f.dirty THEN "clean"
    ELSE IF findINode(NewTx(s), f.path).err # "OK"
    THEN IF w.err = "ENOENT" /\ w.store = s /\ w.file.dirty
         THEN "refused" ELSE "off"
    ELSE IF findINode(NewTx(s), f.path).val.id = f.node
    THEN IF \A k \in Keys \ NodeKeys(s, f.node) : w.store[k] = s[k]
         THEN "own" ELSE "off"
    ELSE IF w.store = s THEN "spared"
    ELSE "other"

\* The record of a handle call on f that left w; flushed says that the call
\* wrote the handle's state to the store.
FileObs(op, w, f, flushed) ==
    [NoCall EXCEPT !.op = op, !.err = w.err, !.closed = w.closed,
                   !.changed = (w.store # store),
                   !.lost = LostDirectory(store, w.store),
                   !.was = f.stats.size,
                   !.n = SizeOf(w.store, f.path),
                   !.want = w.file.exp,
                   !.hist = f.hist,
                   !.flushed = (flushed /\ w.err = "OK"),
                   !.wasDirty = f.dirty,
                   !.dirty = w.file.dirty,
                   !.bind = IF op \in {"sync", "close"}
                            THEN BindTag(store, f, w) ELSE "none"]

\* An engine call between two handle calls: the handle's calls are no longer
\* consecutive.
Disturbed(f) == IF f = NoFile THEN f ELSE [f EXCEPT !.hist = "other"]

\* The engine call op returned or threw, leaving r.
EngineCall(op, r, tag, path, after) ==
    /\ store' = r.store
    /\ file' = Disturbed(file)
    /\ last' = Obs(op, r, tag, path, after)
    /\ UNCHANGED <<txVars, alloc, flagVars, walk, pair>>

\* The same, of a call that adds an entry to a directory or takes one from
\* it: wparent says whether the caller may write that directory.
GuardedCall(op, r, tag, path, after, wparent) ==
    /\ store' = r.store
    /\ file' = Disturbed(file)
    /\ last' = [Obs(op, r, tag, path, after) EXCEPT !.wparent = wparent]
    /\ UNCHANGED <<txVars, alloc, flagVars, walk, pair>>

\* ---------------------------------------------------------- cases of calls
IsPrefixSeq(a, b) == Len(a) <= Len(b) /\ SubSeq(b, 1, Len(a)) = a

\* Where the destination of a rename lies, by the names of the two paths,
\* given that the source exists (entry says so) in a parent writable to cred:
\* its parent is the source or below it ("inside"), or is not but its path
\* string begins with the source's ("beside"), or neither ("apart").
PlaceOf(old, new, cred, parent, entry) ==
    IF parent.err # "OK" \/ entry.err # "OK" THEN "none"
    ELSE IF ~hasAccess(toStats(parent.val), W_OK, cred) THEN "none"
    ELSE IF IsPrefixSeq(old, Front(new)) THEN "inside"
    ELSE IF StartsWith(PathOf(Front(new)), PathOf(old)) THEN "beside"
    ELSE "apart"

RenameTag(s, old, new, cred) ==
    IF old = <<>> THEN "none"
    ELSE PlaceOf(old, new, cred, findINode(NewTx(s), PathOf(Front(old))),
                 findINode(NewTx(s), PathOf(old)))

\* The listing of the directory findINode returned as d.
ListingOf(d) == IF d.err # "OK" THEN d ELSE getDirListing(d.t, d.val)

\* Whether cred may write the directory dir, what findINode returned for it:
\* "granted" or "denied", "none" if it is no directory.
ParentAccess(cred, dir) ==
    IF dir.err # "OK" THEN "none"
    ELSE IF ~isDirectory(toStats(dir.val)) THEN "none"
    ELSE IF hasAccess(toStats(dir.val), W_OK, cred) THEN "granted"
    ELSE "denied"

\* The caller's write access on the parent of an existing entry ns.
RemoveGuard(s, ns, cred) ==
    IF ns = <<>> THEN "none"
    ELSE IF findINode(NewTx(s), PathOf(ns)).err # "OK" THEN "none"
    ELSE ParentAccess(cred, findINode(NewTx(s), PathOf(Front(ns))))

\* The caller's write access on the destination's parent, for a rename the
\* source and the busy guard let through.
DestGuard(s, old, new, cred) ==
    IF RenameTag(s, old, new, cred) \notin {"beside", "apart"} THEN "none"
    ELSE ParentAccess(cred, findINode(NewTx(s), PathOf(Front(new))))

\* The caller's write access on the directory a create adds to; dirname of
\* the root path is the root path.
CreateGuard(s, ns, cred) ==
    IF ns = <<>> THEN ParentAccess(cred, findINode(NewTx(s), Root))
    ELSE ParentAccess(cred, findINode(NewTx(s), PathOf(Front(ns))))

\* Whether the path of a create is taken: it is the root path, or its name
\* is in the listing of its parent.
TakenIn(ns, listing) ==
    IF listing.err # "OK" THEN "none"
    ELSE IF ns = <<>> THEN "exists"
    ELSE IF Has(listing.val, ns[Len(ns)]) THEN "exists"
    ELSE "free"

CreateTag(s, ns) ==
    IF ns = <<>> THEN TakenIn(ns, ListingOf(findINode(NewTx(s), Root)))
    ELSE TakenIn(ns, ListingOf(findINode(NewTx(s), PathOf(Front(ns)))))

\* The directory an rmdir is called on, d being what findINode returned.
DirTag(cred, d, listing) ==
    IF d.err # "OK" \/ listing.err # "OK" THEN "none"
    ELSE IF DOMAIN listing.val # {}
    THEN IF hasAccess(toStats(d.val), R_OK, cred)
         THEN "nonempty" ELSE "nonempty-unreadable"
    ELSE IF hasAccess(toStats(d.val), R_OK, cred)
            /\ hasAccess(toStats(d.val), W_OK, cred)
    THEN "empty" ELSE "empty-noaccess"

\* The file an rmdir is called on, d being what findINode returned: "none"
\* if it is no file.
FileTag(cred, d) ==
    IF d.err # "OK" THEN "none"
    ELSE IF ~isFile(toStats(d.val)) THEN "none"
    ELSE IF hasAccess(toStats(d.val), R_OK, cred) THEN "file"
    ELSE "file-unreadable"

\* The directory an unlink is called on, d being what findINode returned:
\* "none" if it is no directory.
UnlinkTagOf(cred, d) ==
    IF d.err # "OK" THEN "none"
    ELSE IF ~isDirectory(toStats(d.val)) THEN "none"
    ELSE IF hasAccess(toStats(d.val), W_OK, cred) THEN "directory"
    ELSE "directory-denied"

UnlinkTag(s, ns, cred) ==
    IF ns = <<>> THEN "none"
    ELSE UnlinkTagOf(cred, findINode(NewTx(s), PathOf(ns)))

RmdirTag(s, ns, cred) ==
    IF ns = <<>> THEN "root"
    ELSE IF FileTag(cred, findINode(NewTx(s), PathOf(ns))) # "none"
    THEN FileTag(cred, findINode(NewTx(s), PathOf(ns)))
    ELSE DirTag(cred, findINode(NewTx(s), PathOf(ns)),
                ListingOf(findINode(NewTx(s), PathOf(ns))))

\* The last call removed an entry of the directory p.
AfterRemovalIn(p) ==
    /\ last.op \in {"unlink", "rmdir"}
    /\ last.err = "OK"
    /\ last.path # Root
    /\ dirname(last.path) = p

\* ------------------------------------------------------------ engine calls
Mkdir(ns, perm, cred, ids) ==
    /\ NodeCount(store) < MaxNodes
    /\ GuardedCall("mkdir",
                   mkdirSync(store, PathOf(ns), perm, cred, ids[1], ids[2]),
                   CreateTag(store, ns), Root, FALSE,
                   CreateGuard(store, ns, cred))

\* createFileSync returned a handle or threw, leaving c.
Created(c) ==
    /\ store' = c.store
    /\ file' = c.file
    /\ last' = [NoCall EXCEPT !.op = "create", !.err = c.err,
                              !.closed = c.closed,
                              !.changed = (c.store # store)]
    /\ UNCHANGED <<txVars, alloc, flagVars, walk, pair>>

\* createFileSync, the caller keeping the handle.
CreateOpen(ns, flag, perm, cred, ids) ==
    /\ file = NoFile
    /\ NodeCount(store) < MaxFiles
    /\ Created(createFileSync(store, PathOf(ns), flag, perm, cred,
                              ids[1], ids[2]))

\* createFileSync, the caller dropping the handle.
CreateFile(ns, flag, perm, cred, ids) ==
    /\ NodeCount(store) < MaxNodes
    /\ GuardedCall("create",
                   createFileSync(store, PathOf(ns), flag, perm, cred,
                                  ids[1], ids[2]),
                   CreateTag(store, ns), Root, FALSE,
                   CreateGuard(store, ns, cred))

Unlink(ns, cred) ==
    GuardedCall("unlink", unlinkSync(store, PathOf(ns), cred),
                UnlinkTag(store, ns, cred), PathOf(ns), FALSE,
                RemoveGuard(store, ns, cred))

Rmdir(ns, cred) ==
    GuardedCall("rmdir", rmdirSync(store, PathOf(ns), cred),
                RmdirTag(store, ns, cred), PathOf(ns),
                AfterRemovalIn(PathOf(ns)), RemoveGuard(store, ns, cred))

RECURSIVE KeyFrom(_, _, _)
\* The inode key reached from key id by looking up the names of ns one after
\* the other, -1 if there is none.
KeyFrom(s, id, ns) ==
    IF s[id].kind # "inode" THEN -1
    ELSE IF ns = <<>> THEN id
    ELSE IF s[id].i.type # DIRECTORY THEN -1
    ELSE IF s[s[id].i.id].kind # "listing" THEN -1
    ELSE IF Head(ns) \notin DOMAIN s[s[id].i.id].l THEN -1
    ELSE KeyFrom(s, s[s[id].i.id].l[Head(ns)], Tail(ns))

KeyOf(s, ns) == KeyFrom(s, ROOT_NODE_ID, ns)

\* What the destination of a rename is, for a rename to another path that
\* the source checks and the busy guard let through.
DestKind(s, old, new, cred) ==
    IF old = new THEN "none"
    ELSE IF RenameTag(s, old, new, cred) \notin {"beside", "apart"}
    THEN "none"
    ELSE IF KeyOf(s, new) = -1 THEN "none"
    ELSE IF s[KeyOf(s, new)].i.type = FILE THEN "file"
    ELSE "directory"

\* The rename that left s2 took the inode and the data of the file at new
\* out of the store and made new refer to the node of old.
Replaced(s, s2, old, new) ==
    /\ s2[KeyOf(s, new)] = undefined
    /\ s2[s[KeyOf(s, new)].i.id] = undefined
    /\ KeyOf(s2, new) = KeyOf(s, old)

\* The listing of the directory ns in s, the names in but aside.
Others(s, ns, but) ==
    [n \in DOMAIN s[s[KeyOf(s, ns)].i.id].l \ but |->
        s[s[KeyOf(s, ns)].i.id].l[n]]

\* The rename of old to another path new that left s2 moved the node and
\* nothing else: new refers to the inode key old referred to, the inode and
\* its data are as they were, old no longer resolves, the other entries of
\* both parents are as they were, and what was below old is below new.
Moved(s, s2, old, new) ==
    /\ KeyOf(s2, new) = KeyOf(s, old)
    /\ s2[KeyOf(s, old)] = s[KeyOf(s, old)]
    /\ s2[s[KeyOf(s, old)].i.id] = s[s[KeyOf(s, old)].i.id]
    /\ KeyOf(s2, old) = -1
    /\ KeyOf(s2, Front(old)) = KeyOf(s, Front(old))
    /\ KeyOf(s2, Front(new)) = KeyOf(s, Front(new))
    /\ Others(s2, Front(old),
              {old[Len(old)]}
                \cup (IF Front(old) = Front(new) THEN {new[Len(new)]}
                      ELSE {}))
         = Others(s, Front(old),
                  {old[Len(old)]}
                    \cup (IF Front(old) = Front(new) THEN {new[Len(new)]}
                          ELSE {}))
    /\ Others(s2, Front(new),
              {new[Len(new)]}
                \cup (IF Front(old) = Front(new) THEN {old[Len(old)]}
                      ELSE {}))
         = Others(s, Front(new),
                  {new[Len(new)]}
                    \cup (IF Front(old) = Front(new) THEN {old[Len(old)]}
                          ELSE {}))
    /\ \A rest \in NameSeqs :
          KeyOf(s, old \o rest) # -1 =>
            KeyOf(s2, new \o rest) = KeyOf(s, old \o rest)

\* renameSync returned or threw, leaving r.
RenameCall(r, old, new, cred) ==
    /\ store' = r.store
    /\ file' = Disturbed(file)
    /\ last' = [Obs("rename", r, RenameTag(store, old, new, cred), Root,
                    FALSE) EXCEPT
                  !.wparent = DestGuard(store, old, new, cred),
                  !.dest = DestKind(store, old, new, cred),
                  !.replaced =
                      /\ r.err = "OK"
                      /\ DestKind(store, old, new, cred) = "file"
                      /\ Replaced(store, r.store, old, new),
                  !.moved =
                      IF r.err # "OK" \/ old = new THEN "none"
                      ELSE IF Moved(store, r.store, old, new) THEN "node"
                      ELSE "more"]
    /\ UNCHANGED <<txVars, alloc, flagVars, walk, pair>>

Rename(old, new, cred) ==
    RenameCall(renameSync(store, PathOf(old), PathOf(new), cred, FALSE),
               old, new, cred)

RECURSIVE WalkFrom(_, _, _)
\* The inode reached from key id by looking up the names of ns one after the
\* other: ENOENT where a name or an inode is missing, ENOTDIR where a name
\* is looked up in a non-directory, "other" where a key holds a blob of the
\* wrong sort or a directory has no listing.
WalkFrom(s, id, ns) ==
    IF s[id] = undefined THEN Answer("ENOENT", NoVal)
    ELSE IF s[id].kind # "inode" THEN Answer("other", NoVal)
    ELSE IF ns = <<>> THEN Answer("OK", s[id].i)
    ELSE IF s[id].i.type # DIRECTORY THEN Answer("ENOTDIR", NoVal)
    ELSE IF s[s[id].i.id].kind # "listing" THEN Answer("other", NoVal)
    ELSE IF Head(ns) \notin DOMAIN s[s[id].i.id].l
    THEN Answer("ENOENT", NoVal)
    ELSE WalkFrom(s, s[s[id].i.id].l[Head(ns)], Tail(ns))

\* findINode(tx, p) on a fresh transaction, as statSync and the other calls
\* begin.
Lookup(ns) ==
    /\ store' = findINode(NewTx(store), PathOf(ns)).t.store
    /\ file' = Disturbed(file)
    /\ last' = [NoCall EXCEPT
                  !.op = "lookup",
                  !.err = findINode(NewTx(store), PathOf(ns)).err,
                  !.changed = (findINode(NewTx(store), PathOf(ns)).t.store
                                 # store),
                  !.path = PathOf(ns),
                  !.found = Answer(findINode(NewTx(store), PathOf(ns)).err,
                                   findINode(NewTx(store), PathOf(ns)).val),
                  !.ref = WalkFrom(store, ROOT_NODE_ID, ns)]
    /\ UNCHANGED <<txVars, alloc, flagVars, walk, pair>>

\* Whether a rename left both parents' listing blobs as they were in s, and
\* the inode and data of the file at the destination in place.
Intact(s, s2, oldParent, newParent, targetId, target) ==
    /\ s2[oldParent.val.id] = s[oldParent.val.id]
    /\ s2[newParent.val.id] = s[newParent.val.id]
    /\ targetId.err = "OK" => s2[targetId.val] = s[targetId.val]
    /\ target.err = "OK" => s2[target.val.id] = s[target.val.id]

\* The keys the puts of a syncSync on the inode key k of s are made on.
SyncWritten(s, k, data, stats) ==
    SyncPuts(NewTx(s), k, s[k].i, data, stats).modifiedKeys

\* The syncSync on inode key k that left s2 put the data and, if the stats
\* differ from the inode's, the inode, and nothing else; every other key
\* holds what it held.
SyncExact(s, s2, k, data, stats) ==
    /\ s2[s[k].i.id] = BlobOf(data)
    /\ s[k].i.id \in SyncWritten(s, k, data, stats)
    /\ k \in SyncWritten(s, k, data, stats) <=> InodeChanged(s[k].i, stats)
    /\ SyncWritten(s, k, data, stats) \subseteq {k, s[k].i.id}
    /\ s2[k] = IF InodeChanged(s[k].i, stats)
               THEN InodeBlob(InodeUpdate(s[k].i, stats)) ELSE s[k]
    /\ \A j \in Keys \ {k, s[k].i.id} : s2[j] = s[j]

SyncTag(s, s2, k, data, stats) ==
    IF k = -1 THEN "none"
    ELSE IF ~SyncExact(s, s2, k, data, stats) THEN "off"
    ELSE IF InodeChanged(s[k].i, stats) THEN "data-inode"
    ELSE "data"

\* syncSync of the engine, called with any data and stats.
EngineSync(ns, data, stats) ==
    EngineCall("sync", syncSync(store, PathOf(ns), data, stats),
               SyncTag(store, syncSync(store, PathOf(ns), data, stats).store,
                       KeyOf(store, ns), data, stats),
               PathOf(ns), FALSE)

\* renameSync over a store whose commit() throws: the puts and removes
\* made before it went to the store as they were made.
RenameCommitFails(old, new, cred) ==
    /\ old # <<>>
    /\ renameSync(store, PathOf(old), PathOf(new), cred, TRUE).err = "EIO"
    /\ EngineCall("rename-commit-fails",
                  renameSync(store, PathOf(old), PathOf(new), cred, TRUE),
                  IF Intact(store,
                            renameSync(store, PathOf(old), PathOf(new), cred,
                                       TRUE).store,
                            findINode(NewTx(store), PathOf(Front(old))),
                            findINode(NewTx(store), PathOf(Front(new))),
                            FindINodeId(NewTx(store), dirname(PathOf(new)),
                                        basename(PathOf(new)), {}),
                            findINode(NewTx(store), PathOf(new)))
                  THEN "intact" ELSE "partial",
                  Root, FALSE)

\* A new SyncStoreFileSystem over the store as it is: the constructor calls
\* makeRootDirectory.
Mount(id) ==
    EngineCall("mount", makeRootDirectory(store, id), "none", Root, FALSE)

\* renameSync with the root as a source or a destination as well.
RootRename(old, new, cred) ==
    EngineCall("rename",
               renameSync(store, PathOf(old), PathOf(new), cred, FALSE),
               "none", Root, FALSE)

Chmod(ns, perm, cred) ==
    EngineCall("chmod", chmodSync(store, PathOf(ns), perm, cred), "none",
               Root, FALSE)

Chown(ns, uid, gid, cred) ==
    EngineCall("chown", chownSync(store, PathOf(ns), uid, gid, cred), "none",
               Root, FALSE)

Empty(id) == EngineCall("empty", empty(store, id), "none", Root, FALSE)

\* ------------------------------------------------------------ handle calls
\* openFileSync returned a handle or threw.
OpenedAs(o) ==
    /\ file' = o.file
    /\ last' = [NoCall EXCEPT !.op = "open", !.err = o.err]
    /\ UNCHANGED <<store, txVars, alloc, flagVars, walk, pair>>

IsFileAt(s, p) ==
    /\ findINode(NewTx(s), p).err = "OK"
    /\ s[findINode(NewTx(s), p).val.id].kind = "bytes"

Open(ns, flag, cred) ==
    /\ file = NoFile
    /\ IsFileAt(store, PathOf(ns))
    /\ OpenedAs(openFileSync(store, PathOf(ns), flag, cred, "opened"))

\* The length the calls made on the handle should have established.
Expecting(w, exp, hist) ==
    IF w.err = "OK" THEN [w EXCEPT !.file.exp = exp, !.file.hist = hist]
    ELSE [w EXCEPT !.file.hist = "other"]

\* The handle call op on file returned or threw, leaving w.
HandleCall(op, w, flushed) ==
    /\ store' = w.store
    /\ file' = w.file
    /\ last' = FileObs(op, w, file, flushed)
    /\ UNCHANGED <<txVars, alloc, flagVars, walk, pair>>

Write(b, position) ==
    /\ file # NoFile
    /\ position + Len(b) <= MaxLen
    /\ HandleCall("write",
                  Expecting(writeSync(store, file, b, 0, Len(b), position),
                            Max(file.exp, position + Len(b)),
                            IF file.hist = "created" /\ position = 0
                            THEN "created-written" ELSE "other"),
                  isSynchronous(file.flag))

Truncate(len) ==
    /\ file # NoFile
    /\ HandleCall("truncate",
                  Expecting(truncateSync(store, file, len), len, "other"),
                  isSynchronous(file.flag))

Sync ==
    /\ file # NoFile
    /\ HandleCall("sync",
                  Expecting(FileSyncSync(store, file), file.exp, "other"),
                  file.dirty)

\* What a new handle on p, opened for reading, reads of the whole file into
\* a buffer of n bytes.
Reread(s, p, n) ==
    IF openFileSync(s, p, <<"r">>, "root", "opened").err # "OK"
    THEN Read(NoFile, <<>>, openFileSync(s, p, <<"r">>, "root", "opened").err)
    ELSE readSync(openFileSync(s, p, <<"r">>, "root", "opened").file,
                  Zeros(n), 0, n, 0)

\* closeSync on f returned, leaving w with the handle not dirty and the data
\* blob of its path equal to its buffer, which is what a new handle reads.
RoundTrip(w, f) ==
    /\ w.err = "OK"
    /\ ~w.file.dirty
    /\ w.file.buffer = f.buffer
    /\ findINode(NewTx(w.store), f.path).err = "OK"
    /\ w.store[findINode(NewTx(w.store), f.path).val.id] = Bytes(f.buffer)
    /\ Reread(w.store, f.path, Len(f.buffer)).err = "OK"
    /\ Reread(w.store, f.path, Len(f.buffer)).buffer = f.buffer
    /\ Reread(w.store, f.path, Len(f.buffer)).file.ret = Len(f.buffer)
    /\ Reread(w.store, f.path, Len(f.buffer) + 1).file.ret = Len(f.buffer)

\* "gone" if the path of f does not resolve in s.
CloseTag(s, w, f) ==
    IF findINode(NewTx(s), f.path).err # "OK" THEN "gone"
    ELSE IF RoundTrip(w, f) THEN "round"
    ELSE "off"

\* closeSync; the handle is dropped whether it threw or not.
Closed(w, f) ==
    /\ store' = w.store
    /\ file' = NoFile
    /\ last' = [FileObs("close", w, f, f.dirty) EXCEPT
                  !.tag = CloseTag(store, w, f)]
    /\ UNCHANGED <<txVars, alloc, flagVars, walk, pair>>

Close ==
    /\ file # NoFile
    /\ Closed(closeSync(store, file), file)

\* --------------------------------------------------------------------- Spec
\* The store after the constructor ran makeRootDirectory on an empty store.
InitStore == makeRootDirectory(EmptyStore, 1).store

TxIdle ==
    /\ tx = NewTx(EmptyStore)
    /\ txPre = EmptyStore
    /\ txPhase = "committed"
    /\ txTouched = {}

AllocIdle == alloc = NoAlloc

FsIdle ==
    /\ store = InitStore
    /\ file = NoFile
    /\ last = NoCall

\* No FileFlag call yet, nothing cached.
NoConv ==
    [kind |-> "none", str |-> <<>>, num |-> -1, op |-> "none", err |-> "OK",
     flag |-> <<>>, val |-> -1, exists |-> "none", missing |-> "none",
     hit |-> FALSE]

FlagIdle == cache = {} /\ conv = NoConv

\* No resolution under way.
NoWalk ==
    [pc |-> "idle", path |-> <<>>, parent |-> <<>>, filename |-> <<>>,
     visited |-> {}, pending |-> <<>>, id |-> ROOT_NODE_ID, err |-> "OK",
     again |-> FALSE]

WalkIdle == walk = NoWalk

\* Buffer objects (Uint8Array over an ArrayBuffer of its own) alive at once:
\* the store's blob, one per handle, one being made.
MaxCells == 4
Cells == 1 .. MaxCells
\* A holder's view of a buffer object: the first len bytes of a cell.
NoView == [cell |-> 0, len |-> 0]
View(cells, v) == IF v.cell = 0 THEN <<>> ELSE SubSeq(cells[v.cell], 1, v.len)

NoObs ==
    [op |-> "none", flushed |-> FALSE,
     otherSame |-> TRUE, storeSame |-> TRUE]

\* No handle, no file; refs says whether the store's get and put pass the
\* Uint8Array itself (as a Map does) or a copy of it.
NoPair ==
    [refs |-> FALSE, cells |-> [c \in Cells |-> <<>>], sview |-> NoView,
     h |-> [j \in 1 .. 2 |-> NoFile], hview |-> [j \in 1 .. 2 |-> NoView],
     lastSync |-> 0, obs |-> NoObs]

PairIdle == pair = NoPair

Init == TxIdle /\ AllocIdle /\ FsIdle /\ FlagIdle /\ WalkIdle /\ PairIdle

Next ==
    \/ \E ns \in NameSeqs, perm \in Perms, cred \in Creds,
          ids \in FreshPairs(store) : Mkdir(ns, perm, cred, ids)
    \/ \E ns \in NameSeqs, flag \in Flags, perm \in Perms, cred \in Creds,
          ids \in FreshPairs(store) : CreateFile(ns, flag, perm, cred, ids)
    \/ \E ns \in NameSeqs, cred \in Creds : Unlink(ns, cred)
    \/ \E ns \in NameSeqs, cred \in Creds : Rmdir(ns, cred)
    \/ \E old \in NameSeqs, new \in DestSeqs, cred \in Creds :
          Rename(old, new, cred)
    \/ \E ids \in FreshPairs(store) : Mount(ids[1])

Spec == Init /\ [][Next]_vars

\* ----------------------------------------------------------------- SpecFile
\* One handle at a time on the files of the root directory.
NextFile ==
    \/ \E ns \in FileSeqs, flag \in Flags, perm \in Perms, cred \in Creds,
          ids \in FreshPairs(store) : CreateOpen(ns, flag, perm, cred, ids)
    \/ \E ns \in FileSeqs, flag \in Flags, cred \in Creds :
          Open(ns, flag, cred)
    \/ \E b \in Payloads, position \in 0 .. (MaxLen - 1) : Write(b, position)
    \/ \E len \in 0 .. MaxLen : Truncate(len)
    \/ Sync
    \/ Close
    \/ \E ns \in FileSeqs, cred \in Creds : Unlink(ns, cred)

SpecFile == Init /\ [][NextFile]_vars

\* ------------------------------------------------------------------- SpecTx
InitTx ==
    /\ \E s \in TxStores : tx = NewTx(s) /\ txPre = s
    /\ txPhase = "open"
    /\ txTouched = {}
    /\ AllocIdle
    /\ FsIdle
    /\ FlagIdle
    /\ WalkIdle
    /\ PairIdle

NextTx ==
    \/ \E key \in TxKeys : TxDoGet(key)
    \/ \E key \in TxKeys, data \in TxValues, overwrite \in BOOLEAN :
          TxDoPut(key, data, overwrite)
    \/ \E key \in TxKeys : TxDoRemove(key)
    \/ TxDoAbort
    \/ TxDoCommit
    \/ TxDoBegin

SpecTx == InitTx /\ [][NextTx]_vars

\* ---------------------------------------------------------------- SpecAlloc
\* Calls of addNewNode, a pass of its loop at a time.
NextAlloc ==
    \/ \E put \in PutKinds, data \in AllocData : AllocCall(put, data)
    \/ \E id \in UUIDs : AllocPass(id)
    \/ AllocDone

SpecAlloc == Init /\ [][NextAlloc]_vars

\* -------------------------------------------------------------- SpecCollide
\* The engine with randomUUID() returning any key, used ones included.
NextCollide ==
    \/ \E ns \in NameSeqs, ids \in AnyPairs(store) :
          Mkdir(ns, AllPerms, "root", ids)
    \/ \E ns \in NameSeqs : Rmdir(ns, "root")

SpecCollide == Init /\ [][NextCollide]_vars

\* --------------------------------------------------------------- SpecLookup
\* Path resolution over the stores the engine builds; randomUUID() may
\* return a key in use when a directory is made.
NextLookup ==
    \/ \E ns \in NameSeqs, ids \in AnyPairs(store) :
          Mkdir(ns, AllPerms, "root", ids)
    \/ \E ns \in NameSeqs, ids \in FreshPairs(store) :
          CreateFile(ns, <<"w">>, AllPerms, "root", ids)
    \/ \E ns \in NameSeqs : Rmdir(ns, "root")
    \/ \E ns \in NameSeqs : Lookup(ns)

SpecLookup == Init /\ [][NextLookup]_vars

\* ----------------------------------------------------------------- SpecFlag
\* Longest flag string handed to FileFlag.
MaxFlagLen == 3
FlagChars == {"r", "w", "a", "x", "s", "+"}
FlagStrings == UNION {[1 .. n -> FlagChars] : n \in 0 .. MaxFlagLen}
FlagBits == {O_WRONLY, O_RDWR, O_CREAT, O_EXCL, O_TRUNC, O_APPEND, O_SYNC}

RECURSIVE OrAll(_)
OrAll(S) ==
    IF S = {} THEN 0
    ELSE LET b == CHOOSE x \in S : TRUE IN BitOr(b, OrAll(S \ {b}))

\* Every combination of the open(2) bits.
FlagNumbers == {OrAll(S) : S \in SUBSET FlagBits}

\* The caller holds one flag, a string or a number.
InitFlag ==
    /\ TxIdle /\ AllocIdle /\ FsIdle /\ WalkIdle /\ PairIdle
    /\ cache = {}
    /\ \/ \E str \in FlagStrings :
             conv = [NoConv EXCEPT !.kind = "string", !.str = str]
       \/ \E num \in FlagNumbers :
             conv = [NoConv EXCEPT !.kind = "number", !.num = num]

\* FileFlag.NumberOf(flag), and StringOf of what it returned.
ApplyNumberOf ==
    /\ conv.kind = "string"
    /\ conv' = [conv EXCEPT
                  !.op = "NumberOf",
                  !.err = NumberOf(conv.str).err,
                  !.val = NumberOf(conv.str).val,
                  !.flag = IF NumberOf(conv.str).err = "OK"
                           THEN StringOf(NumberOf(conv.str).val).val
                           ELSE <<>>,
                  !.exists = "none", !.missing = "none", !.hit = FALSE]
    /\ UNCHANGED <<txVars, fsVars, alloc, cache, walk, pair>>

\* FileFlag.StringOf(flag), and NumberOf of what it returned.
ApplyStringOf ==
    /\ conv.kind = "number"
    /\ conv' = [conv EXCEPT
                  !.op = "StringOf",
                  !.err = StringOf(conv.num).err,
                  !.flag = StringOf(conv.num).val,
                  !.val = IF StringOf(conv.num).err = "OK"
                          THEN NumberOf(StringOf(conv.num).val).val
                          ELSE -1,
                  !.exists = "none", !.missing = "none", !.hit = FALSE]
    /\ UNCHANGED <<txVars, fsVars, alloc, cache, walk, pair>>

\* The key of FileFlag.cache for the flag held: the string or the number.
CacheKey == <<conv.kind, conv.str, conv.num>>

\* FileFlag.Get returned the object made by made, or threw; then both
\* decisions are asked of the object.
GotFlag(made, key) ==
    /\ cache' = IF made.err = "OK" THEN cache \cup {<<key, made.val>>}
                ELSE cache
    /\ conv' = [conv EXCEPT
                  !.op = "Get",
                  !.err = made.err,
                  !.flag = made.val,
                  !.val = -1,
                  !.exists = IF made.err = "OK"
                             THEN pathExistsAction(made.val) ELSE "none",
                  !.missing = IF made.err = "OK"
                              THEN pathNotExistsAction(made.val)
                              ELSE "none",
                  !.hit = \E e \in cache : e[1] = key]
    /\ UNCHANGED <<txVars, fsVars, alloc, walk, pair>>

\* FileFlag.Get(flag): the cached object of the key, or a new one.
ApplyGet ==
    IF \E e \in cache : e[1] = CacheKey
    THEN GotFlag(Answer("OK", (CHOOSE e \in cache : e[1] = CacheKey)[2]),
                 CacheKey)
    ELSE IF conv.kind = "string"
    THEN GotFlag(NewFileFlag(conv.str), CacheKey)
    ELSE GotFlag(NewFileFlagOfNumber(conv.num), CacheKey)

NextFlag ==
    \/ ApplyNumberOf
    \/ ApplyStringOf
    \/ ApplyGet

SpecFlag == InitFlag /\ [][NextFlag]_vars

\* ----------------------------------------------------------------- SpecRoot
\* The calls that may touch the root, on the paths / and /a, with handles on
\* files; randomUUID() may return a key in use when a file is created (for
\* the data, the key of a data blob).
RootSeqs == {<<>>} \cup FileSeqs
DataPairs(s) == {ids \in AnyPairs(s) : s[ids[1]].kind # "inode"}

NextRoot ==
    \/ \E ns \in RootSeqs, ids \in FreshPairs(store) :
          Mkdir(ns, AllPerms, "root", ids)
    \/ \E ns \in RootSeqs, flag \in {<<"w">>, <<"r", "+">>},
          ids \in DataPairs(store) :
          CreateOpen(ns, flag, AllPerms, "root", ids)
    \/ \E ns \in FileSeqs : Open(ns, <<"r", "+">>, "root")
    \/ Write(<<1>>, 0)
    \/ Truncate(0)
    \/ Sync
    \/ Close
    \/ \E ns \in RootSeqs : Unlink(ns, "root")
    \/ \E ns \in RootSeqs : Rmdir(ns, "root")
    \/ \E old \in RootSeqs, new \in RootSeqs : RootRename(old, new, "root")
    \/ \E ns \in RootSeqs, perm \in {{"r"}, AllPerms}, cred \in Creds :
          Chmod(ns, perm, cred)
    \/ \E ns \in RootSeqs : Chown(ns, 0, 0, "root")
    \/ \E ids \in FreshPairs(EmptyStore) : Empty(ids[1])

SpecRoot == Init /\ [][NextRoot]_vars

\* ----------------------------------------------------------------- SpecTree
\* The engine's calls on /a, /a/a and /ab, and one handle on the file /a.
TreeSeqs == {<<<<"a">>>>, <<<<"a">>, <<"a">>>>, <<<<"a", "b">>>>}

NextTree ==
    \/ \E ids \in FreshPairs(store) :
          CreateOpen(<<<<"a">>>>, <<"w">>, AllPerms, "root", ids)
    \/ \E ns \in TreeSeqs, ids \in FreshPairs(store) :
          CreateFile(ns, <<"w">>, AllPerms, "root", ids)
    \/ \E ns \in TreeSeqs, ids \in FreshPairs(store) :
          Mkdir(ns, AllPerms, "root", ids)
    \/ \E ns \in TreeSeqs : Unlink(ns, "root")
    \/ \E ns \in TreeSeqs : Rmdir(ns, "root")
    \/ \E old \in TreeSeqs, new \in TreeSeqs : Rename(old, new, "root")
    \/ Open(<<<<"a">>>>, <<"r", "+">>, "root")
    \/ \E b \in Payloads : Write(b, 0)
    \/ Sync
    \/ Close

SpecTree == Init /\ [][NextTree]_vars

\* ----------------------------------------------------------------- SpecProp
\* chmodSync, chownSync and utimesSync on one handle on /a, between writes,
\* an unlink and closes.
OwnerIds == {0, 1}
Times == {0, 1}
\* What this.fs.metadata() may return to a PreloadFile: the engine's
\* descriptor, and that of a file system without property support.
Descriptors == {metadata, [metadata EXCEPT !.supportsProperties = FALSE]}
PropFlags == {<<"r", "+">>, <<"w">>}

\* What a property call on the handle f did, leaving w, stats being what it
\* was to set: under a descriptor without property support "refused" if it
\* threw ENOTSUP and left the handle and the store as they were; under one
\* with it, and the path of f resolving, "applied" if it returned with the
\* handle not dirty and both the handle's stats and the stored inode being
\* stats ("applied-same" if these were the stats before).
PropTag(s, f, md, w, stats) ==
    IF ~md.supportsProperties
    THEN IF w.err = "ENOTSUP" /\ w.file = f /\ w.store = s
         THEN "refused" ELSE "off"
    ELSE IF findINode(NewTx(s), f.path).err # "OK" THEN "gone"
    ELSE IF /\ w.err = "OK"
            /\ ~w.file.dirty
            /\ w.file.stats = stats
            /\ findINode(NewTx(w.store), f.path).err = "OK"
            /\ toStats(findINode(NewTx(w.store), f.path).val) = stats
    THEN IF stats = f.stats THEN "applied-same" ELSE "applied"
    ELSE "off"

\* The property call op on the handle returned or threw, leaving w.
PropCall(op, md, w, stats) ==
    /\ store' = w.store
    /\ file' = [w.file EXCEPT !.hist = "other"]
    /\ last' = [FileObs(op, w, file, md.supportsProperties) EXCEPT
                  !.tag = PropTag(store, file, md, w, stats)]
    /\ UNCHANGED <<txVars, alloc, flagVars, walk, pair>>

FileChmod(md, perm) ==
    /\ file # NoFile
    /\ PropCall("fchmod", md, FileChmodSync(store, file, md, perm),
                StatsChmod(file.stats, perm))

FileChown(md, uid, gid) ==
    /\ file # NoFile
    /\ PropCall("fchown", md, FileChownSync(store, file, md, uid, gid),
                StatsChown(file.stats, uid, gid))

FileUtimes(md, atime, mtime) ==
    /\ file # NoFile
    /\ PropCall("futimes", md, FileUtimesSync(store, file, md, atime, mtime),
                [file.stats EXCEPT !.atime = atime, !.mtime = mtime])

NextProp ==
    \/ \E flag \in PropFlags, ids \in FreshPairs(store) :
          CreateOpen(<<<<"a">>>>, flag, AllPerms, "root", ids)
    \/ \E flag \in PropFlags : Open(<<<<"a">>>>, flag, "root")
    \/ \E b \in Payloads : Write(b, 0)
    \/ Close
    \/ Unlink(<<<<"a">>>>, "root")
    \/ \E md \in Descriptors, perm \in Perms : FileChmod(md, perm)
    \/ \E md \in Descriptors, uid \in OwnerIds, gid \in OwnerIds :
          FileChown(md, uid, gid)
    \/ \E md \in Descriptors, atime \in Times, mtime \in Times :
          FileUtimes(md, atime, mtime)

SpecProp == Init /\ [][NextProp]_vars

\* ------------------------------------------------------------------- SpecIo
\* Reads and writes on one handle on /a.
MaxIo == 3
IoBytes == {1, 2}
IoPayloads == UNION {[1 .. n -> IoBytes] : n \in 1 .. MaxLen}
IoPositions == {Null} \cup (0 .. MaxIo)
\* Readable and writable; the same, appending; read-only; write-only.
IoFlags == {<<"w", "+">>, <<"a", "+">>, <<"r">>, <<"w">>}
\* The caller's buffers of a read, filled with a byte no file holds.
ReadBuffers == {[i \in 1 .. n |-> 9] : n \in {1, MaxIo}}

\* The file after the write that left f2 is the file of f with
\* buf[offset, offset + length) at position: its size is the larger of the
\* old size and position + length, the bytes below the old size and outside
\* the range are as they were, the bytes between the old size and position
\* are zero.
WroteExactly(f, f2, buf, offset, length, position) ==
    /\ f2.stats.size = Max(f.stats.size, position + length)
    /\ Len(f2.buffer) = f2.stats.size
    /\ \A i \in 1 .. f2.stats.size :
          f2.buffer[i] =
             IF i > position /\ i <= position + length
             THEN buf[offset + i - position]
             ELSE IF i <= f.stats.size THEN f.buffer[i]
             ELSE 0

\* "short" if buf has no length bytes from offset on.
WriteTag(f, w, buf, offset, length, position) ==
    IF w.err # "OK" THEN "none"
    ELSE IF offset + length > Len(buf) THEN "short"
    ELSE IF ~WroteExactly(f, w.file, buf, offset, length, position) THEN "off"
    ELSE IF position > f.stats.size THEN "exact-gap"
    ELSE "exact"

\* Whether the write that left w returned length and, on a handle that
\* neither appends nor is synchronous, moved the cursor to the end of what
\* it wrote.
CursorTag(f, w, length, position) ==
    IF w.err # "OK" THEN "none"
    ELSE IF w.file.ret # length THEN "off"
    ELSE IF isAppendable(f.flag) \/ isSynchronous(f.flag) THEN "returned"
    ELSE IF w.file.pos = position + length THEN "advanced"
    ELSE "off"

\* The write that left f2 put buf[offset, offset + length) at the end of the
\* file of f: the size grew by length, the bytes below the old size are as
\* they were, the bytes from the old size on are buf's.
Appended(f, f2, buf, offset, length) ==
    /\ f2.stats.size = f.stats.size + length
    /\ Len(f2.buffer) = f2.stats.size
    /\ SubSeq(f2.buffer, 1, f.stats.size) = f.buffer
    /\ SubSeq(f2.buffer, f.stats.size + 1, f2.stats.size)
         = SubSeq(buf, offset + 1, offset + length)
    /\ PositionOf(f2) = f2.stats.size

\* "given" and "null" say what the position argument was.
AppendTag(f, w, buf, offset, length, position) ==
    IF w.err # "OK" \/ ~isAppendable(f.flag) THEN "none"
    ELSE IF offset + length > Len(buf) THEN "short"
    ELSE IF ~Appended(f, w.file, buf, offset, length) THEN "off"
    ELSE IF position = Null THEN "appended-null"
    ELSE "appended-given"

\* What a call that threw EPERM did to the handle f, leaving f2: "kept" if
\* the buffer, the size, the cursor and the dirty flag are as they were, so
\* that closeSync, which flushes a dirty handle only, does as it would have
\* done before the call.
KeptTag(err, f, f2) ==
    IF err # "EPERM" THEN "none"
    ELSE IF /\ f2.buffer = f.buffer
            /\ f2.stats = f.stats
            /\ f2.pos = f.pos
            /\ f2.dirty = f.dirty
            /\ closeSync(store, f2).store = closeSync(store, f).store
            /\ closeSync(store, f2).closed = closeSync(store, f).closed
    THEN "kept"
    ELSE "changed"

\* The handle call op returned or threw, leaving w.
IoDone(op, w, tag, cursor, append) ==
    /\ store' = w.store
    /\ file' = w.file
    /\ last' = [FileObs(op, w, file, FALSE) EXCEPT
                  !.tag = tag, !.cursor = cursor, !.append = append,
                  !.kept = KeptTag(w.err, file, w.file)]
    /\ UNCHANGED <<txVars, alloc, flagVars, walk, pair>>

IoWrite(b, offset, length, position) ==
    /\ file # NoFile
    /\ PositionOr(file, position) + length <= MaxIo
    /\ IoDone("write",
              Expecting(writeSync(store, file, b, offset, length, position),
                        0, "other"),
              WriteTag(file,
                       writeSync(store, file, b, offset, length, position),
                       b, offset, length, PositionOr(file, position)),
              CursorTag(file,
                        writeSync(store, file, b, offset, length, position),
                        length, PositionOr(file, position)),
              AppendTag(file,
                        writeSync(store, file, b, offset, length, position),
                        b, offset, length, position))

IoTruncate(len) ==
    /\ file # NoFile
    /\ IoDone("truncate",
              Expecting(truncateSync(store, file, len), 0,
                        IF len < file.stats.size THEN "shrunk" ELSE "other"),
              "none", "none", "none")

\* The number of bytes a read of length bytes at position is to return.
ReadCount(f, length, position) ==
    Min(length, Max(f.stats.size - position, 0))

\* The read that left r returned that number, copied as many bytes of the
\* file from position on into buffer at offset and nothing else, and left
\* the file's bytes, size and dirty flag as they were.
ReadExactly(f, r, buffer, offset, length, position) ==
    /\ r.err = "OK"
    /\ r.file.ret = ReadCount(f, length, position)
    /\ r.buffer =
         [i \in 1 .. Len(buffer) |->
             IF i > offset /\ i <= offset + ReadCount(f, length, position)
             THEN f.buffer[position + i - offset]
             ELSE buffer[i]]
    /\ r.file.buffer = f.buffer
    /\ r.file.stats = f.stats
    /\ r.file.dirty = f.dirty

\* "noroom" if the caller's buffer cannot take the bytes at offset.
ReadTag(f, r, buffer, offset, length, position) ==
    IF ~isReadable(f.flag) THEN "none"
    ELSE IF offset + ReadCount(f, length, position) > Len(buffer)
    THEN "noroom"
    ELSE IF ~ReadExactly(f, r, buffer, offset, length, position) THEN "off"
    ELSE IF ReadCount(f, length, position) = 0 THEN "exact-none"
    ELSE IF ReadCount(f, length, position) < length THEN "exact-clamped"
    ELSE "exact"

\* readSync returned or threw, leaving r.
ReadDone(r, tag) ==
    /\ file' = [r.file EXCEPT !.hist = "other"]
    /\ last' = [NoCall EXCEPT !.op = "read", !.err = r.err, !.tag = tag,
                              !.was = file.stats.size, !.n = r.file.ret,
                              !.wasDirty = file.dirty,
                              !.dirty = r.file.dirty,
                              !.kept = KeptTag(r.err, file, r.file)]
    /\ UNCHANGED <<store, txVars, alloc, flagVars, walk, pair>>

IoRead(buffer, offset, length, position) ==
    /\ file # NoFile
    /\ ReadDone(readSync(file, buffer, offset, length, position),
                ReadTag(file,
                        readSync(file, buffer, offset, length, position),
                        buffer, offset, length, PositionOr(file, position)))

NextIo ==
    \/ \E flag \in IoFlags, ids \in FreshPairs(store) :
          CreateOpen(<<<<"a">>>>, flag, AllPerms, "root", ids)
    \/ \E b \in IoPayloads, offset \in 0 .. 1, length \in 0 .. MaxLen,
          position \in IoPositions : IoWrite(b, offset, length, position)
    \/ \E len \in 0 .. MaxIo : IoTruncate(len)
    \/ \E buffer \in ReadBuffers, offset \in 0 .. 1, length \in 0 .. MaxIo,
          position \in IoPositions : IoRead(buffer, offset, length, position)

SpecIo == Init /\ [][NextIo]_vars

\* ----------------------------------------------------------------- SpecSync
\* The engine's syncSync on its own.
SyncData == {<<>>} \cup Payloads
\* The stats a handle on a file passes.
SyncStats ==
    [size : {0, MaxLen}, type : {FILE}, perm : {AllPerms, R_OK},
     uid : {0}, gid : {0}, atime : {0}, mtime : {0}]
\* /a and /a/a.
SyncSeqs == {<<<<"a">>>>, <<<<"a">>, <<"a">>>>}

NextSync ==
    \/ \E ns \in SyncSeqs, ids \in FreshPairs(store) :
          Mkdir(ns, AllPerms, "root", ids)
    \/ \E ns \in SyncSeqs, ids \in FreshPairs(store) :
          CreateFile(ns, <<"w">>, AllPerms, "root", ids)
    \/ \E ns \in SyncSeqs, data \in SyncData, stats \in SyncStats :
          EngineSync(ns, data, stats)

SpecSync == Init /\ [][NextSync]_vars

\* ------------------------------------------------------------------ SpecTwo
\* Two handles on the file /a.
APath == PathOf(<<<<"a">>>>)
HasA(s) == findINode(NewTx(s), APath).err = "OK"
DataKey(s) == findINode(NewTx(s), APath).val.id
UsedCells(sview, hview) == {sview.cell} \cup {hview[j].cell : j \in 1 .. 2}
FreeCell(sview, hview) == MinOf(Cells \ UsedCells(sview, hview))
\* The bytes of cell c that some holder can reach; an object nobody holds is
\* garbage.
Reach(sview, hview, c) ==
    MaxOf({0} \cup {v.len : v \in {w \in {sview, hview[1], hview[2]} : w.cell = c}})

\* Which object is which does not matter: they are numbered in the order
\* store, first handle, second handle.
NameOfStore(sview) == IF sview.cell = 0 THEN 0 ELSE 1
NameOfFirst(sview, hview) ==
    IF hview[1].cell = 0 THEN 0
    ELSE IF hview[1].cell = sview.cell THEN NameOfStore(sview)
    ELSE NameOfStore(sview) + 1
NameOfSecond(sview, hview) ==
    IF hview[2].cell = 0 THEN 0
    ELSE IF hview[2].cell = sview.cell THEN NameOfStore(sview)
    ELSE IF hview[2].cell = hview[1].cell THEN NameOfFirst(sview, hview)
    ELSE MaxOf({NameOfStore(sview), NameOfFirst(sview, hview)}) + 1
Renamed(sview, hview, v) ==
    IF v.cell = 0 THEN v
    ELSE IF v.cell = sview.cell THEN [v EXCEPT !.cell = NameOfStore(sview)]
    ELSE IF v.cell = hview[1].cell
    THEN [v EXCEPT !.cell = NameOfFirst(sview, hview)]
    ELSE [v EXCEPT !.cell = NameOfSecond(sview, hview)]
OldName(sview, hview, c) ==
    IF c = 0 THEN 0
    ELSE IF c = NameOfStore(sview) THEN sview.cell
    ELSE IF c = NameOfFirst(sview, hview) THEN hview[1].cell
    ELSE IF c = NameOfSecond(sview, hview) THEN hview[2].cell
    ELSE 0

\* The call op on handle i left w, the buffer objects cells1 and the views
\* sview1 and hview1 of the store and of the handles: every holder now sees
\* the bytes of the object it holds.
TwoDone(op, i, w, flushed, cells1, sview1, hview1) ==
    /\ pair' =
         [pair EXCEPT
            !.cells = [c \in Cells |->
                         View(cells1,
                              [cell |-> OldName(sview1, hview1, c),
                               len |-> Reach(sview1, hview1,
                                             OldName(sview1, hview1, c))])],
            !.sview = Renamed(sview1, hview1, sview1),
            !.hview = [j \in 1 .. 2 |-> Renamed(sview1, hview1, hview1[j])],
            !.h = [j \in 1 .. 2 |->
                     IF hview1[j].cell = 0 THEN NoFile
                     ELSE [(IF j = i THEN w.file ELSE pair.h[j]) EXCEPT
                             !.buffer = View(cells1, hview1[j]),
                             !.exp = 0, !.hist = "other", !.pos = 0,
                             !.ret = 0]],
            !.lastSync = IF flushed THEN i ELSE @,
            !.obs = [op |-> op, flushed |-> flushed,
                     otherSame |->
                        \/ pair.h[3 - i] = NoFile
                        \/ View(cells1, hview1[3 - i]) = pair.h[3 - i].buffer,
                     storeSame |->
                        \/ ~HasA(store)
                        \/ Bytes(View(cells1, sview1))
                             = store[DataKey(store)]]]
    /\ store' = IF HasA(w.store) /\ sview1.cell # 0
                THEN [w.store EXCEPT
                        ![DataKey(w.store)] = Bytes(View(cells1, sview1))]
                ELSE w.store
    /\ UNCHANGED <<txVars, alloc, flagVars, walk, file, last>>

\* createFileSync: commitNewFile puts a new empty Uint8Array, openFileSync
\* hands the handle what tx.get returns for it.
TwoCreate(i, flag, ids) ==
    /\ pair.h[i] = NoFile
    /\ ~HasA(store)
    /\ LET c == createFileSync(store, APath, flag, AllPerms, "root",
                               ids[1], ids[2])
           k == FreeCell(NoView, pair.hview)
           sv == [cell |-> k, len |-> 0]
           hv == IF pair.refs THEN sv
                 ELSE [cell |-> FreeCell(sv, pair.hview), len |-> 0]
       IN  TwoDone("create", i, c, FALSE,
                   [pair.cells EXCEPT ![k] = <<>>, ![hv.cell] = <<>>],
                   IF HasA(c.store) THEN sv ELSE NoView,
                   [pair.hview EXCEPT
                      ![i] = IF c.file = NoFile THEN NoView ELSE hv])

\* openFileSync: the handle's buffer is what tx.get returns.
TwoOpen(i, flag) ==
    /\ pair.h[i] = NoFile
    /\ HasA(store)
    /\ LET o == openFileSync(store, APath, flag, "root", "opened")
           hv == IF pair.refs THEN pair.sview
                 ELSE [cell |-> FreeCell(pair.sview, pair.hview),
                       len |-> pair.sview.len]
       IN  TwoDone("open", i, FileDone(store, o.file, o.err, TRUE), FALSE,
                   [pair.cells EXCEPT
                      ![hv.cell] = IF pair.refs THEN @
                                   ELSE View(pair.cells, pair.sview)],
                   pair.sview,
                   [pair.hview EXCEPT
                      ![i] = IF o.file = NoFile THEN NoView ELSE hv])

\* What writeSync or truncateSync, having left w, did to the buffer object of
\* handle i: a longer buffer is a new object (the old one copied into it), a
\* shorter one is subarray(0, len) of the same object, and a write that fits
\* is made in place with _buffer.set.
Rebuffered(op, i, w) ==
    LET c == pair.hview[i].cell
        k == FreeCell(pair.sview, pair.hview)
        old == pair.h[i].buffer
        new == w.file.buffer
    IN  IF w.err # "OK"
        THEN TwoDone(op, i, w, FALSE, pair.cells, pair.sview, pair.hview)
        ELSE IF Len(new) > Len(old)
        THEN TwoDone(op, i, w, FALSE, [pair.cells EXCEPT ![k] = new],
                     pair.sview,
                     [pair.hview EXCEPT ![i] = [cell |-> k, len |-> Len(new)]])
        ELSE IF Len(new) < Len(old)
        THEN TwoDone(op, i, w, FALSE, pair.cells, pair.sview,
                     [pair.hview EXCEPT ![i] = [cell |-> c, len |-> Len(new)]])
        ELSE TwoDone(op, i, w, FALSE,
                     [pair.cells EXCEPT
                        ![c] = new \o SubSeq(@, Len(new) + 1, Len(@))],
                     pair.sview, pair.hview)

TwoWrite(i, b, position) ==
    /\ pair.h[i] # NoFile
    /\ position + Len(b) <= MaxLen
    /\ Rebuffered("write", i,
                  writeSync(store, pair.h[i], b, 0, Len(b), position))

TwoTruncate(i, len) ==
    /\ pair.h[i] # NoFile
    /\ Rebuffered("truncate", i, truncateSync(store, pair.h[i], len))

\* syncSync of handle i left w: if it put the data, the store holds the
\* handle's buffer object, or a copy of it.
Flushed(op, i, w, hview1) ==
    LET k == FreeCell(pair.sview, pair.hview)
    IN  IF ~(pair.h[i].dirty /\ w.err = "OK")
        THEN TwoDone(op, i, w, FALSE, pair.cells, pair.sview, hview1)
        ELSE IF pair.refs
        THEN TwoDone(op, i, w, TRUE, pair.cells, pair.hview[i], hview1)
        ELSE TwoDone(op, i, w, TRUE,
                     [pair.cells EXCEPT ![k] = pair.h[i].buffer],
                     [cell |-> k, len |-> Len(pair.h[i].buffer)], hview1)

TwoSync(i) ==
    /\ pair.h[i] # NoFile
    /\ Flushed("sync", i, FileSyncSync(store, pair.h[i]), pair.hview)

TwoClose(i) ==
    /\ pair.h[i] # NoFile
    /\ Flushed("close", i, closeSync(store, pair.h[i]),
               [pair.hview EXCEPT ![i] = NoView])

InitTwo ==
    /\ TxIdle /\ AllocIdle /\ FsIdle /\ FlagIdle /\ WalkIdle
    /\ \E refs \in BOOLEAN : pair = [NoPair EXCEPT !.refs = refs]

\* Flags of the two handles: writable, not synchronous.
CreateFlags == {<<"w">>}
OpenFlags == {<<"r", "+">>}

NextTwo ==
    \/ \E i \in 1 .. 2, flag \in CreateFlags, ids \in FreshPairs(store) :
          TwoCreate(i, flag, ids)
    \/ \E i \in 1 .. 2, flag \in OpenFlags : TwoOpen(i, flag)
    \/ \E i \in 1 .. 2, b \in Payloads, position \in 0 .. (MaxLen - 1) :
          TwoWrite(i, b, position)
    \/ \E i \in 1 .. 2, len \in 0 .. MaxLen : TwoTruncate(i, len)
    \/ \E i \in 1 .. 2 : TwoSync(i)
    \/ \E i \in 1 .. 2 : TwoClose(i)

SpecTwo == InitTwo /\ [][NextTwo]_vars

\* -------------------------------------------------------------- SpecResolve
\* Longest path string handed to findINode.
MaxPathLen == 4
\* Invocations of _findINode that may be waiting for their recursive call.
MaxDepth == 6
PathChars == {Sep, "a", "."}
PathStrings == UNION {[1 .. n -> PathChars] : n \in 0 .. MaxPathLen}

\* Stores the engine can have built: the root alone, a directory /a, a
\* file /a, and a directory /a whose entry a has the id of /a's own inode
\* (randomUUID() returned that id again for /a/a).
DirStore == mkdirSync(InitStore, PathOf(<<<<"a">>>>), AllPerms, "root", 2, 3).store
FileStore == createFileSync(InitStore, PathOf(<<<<"a">>>>), <<"w">>, AllPerms, "root", 2, 3).store
LoopStore == mkdirSync(DirStore, PathOf(<<<<"a">>, <<"a">>>>), AllPerms, "root", 4, 3).store
ResolveStores == {InitStore, DirStore, FileStore, LoopStore}

\* findINode(tx, p) has just called _findINode(tx, dirname(p), basename(p)).
InitResolve ==
    /\ TxIdle /\ AllocIdle /\ FlagIdle /\ PairIdle
    /\ file = NoFile
    /\ last = NoCall
    /\ store \in ResolveStores
    /\ \E p \in PathStrings :
          walk = [NoWalk EXCEPT !.pc = "call", !.path = p,
                                !.parent = dirnameAny(p),
                                !.filename = basenameAny(p)]

Revisited_Never(visited, currentPath) == FALSE

\* visited.has(currentPath)
Revisited(visited, currentPath) == currentPath \in visited

\* readDirectory(getINode(tx, ..., id)) of an invocation returned or threw.
ReadInto(w, r) ==
    IF r.err = "OK" THEN [w EXCEPT !.pc = "unwind", !.id = r.val]
    ELSE [w EXCEPT !.pc = "threw", !.err = r.err]

\* An invocation of _findINode up to its recursive call, or all of it where
\* parent is '/'.
Descend ==
    /\ walk.pc = "call"
    /\ Len(walk.pending) < MaxDepth
    /\ walk' =
         IF Revisited(walk.visited, joinAny(walk.parent, walk.filename))
         THEN [walk EXCEPT !.pc = "threw", !.err = "EIO",
                           !.again = joinAny(walk.parent, walk.filename)
                                       \in walk.visited]
         ELSE IF walk.parent # Root
         THEN [walk EXCEPT
                 !.visited = @ \cup {joinAny(walk.parent, walk.filename)},
                 !.again = joinAny(walk.parent, walk.filename)
                             \in walk.visited,
                 !.pending = Append(@, <<walk.parent, walk.filename>>),
                 !.parent = dirnameAny(walk.parent),
                 !.filename = basenameAny(walk.parent)]
         ELSE IF walk.filename = <<>>
         THEN [walk EXCEPT
                 !.visited = @ \cup {joinAny(walk.parent, walk.filename)},
                 !.again = joinAny(walk.parent, walk.filename)
                             \in walk.visited,
                 !.pc = "unwind", !.id = ROOT_NODE_ID]
         ELSE ReadInto(
                 [walk EXCEPT
                    !.visited = @ \cup {joinAny(walk.parent, walk.filename)},
                    !.again = joinAny(walk.parent, walk.filename)
                                \in walk.visited],
                 readDirectory(getINode(NewTx(store), ROOT_NODE_ID),
                               walk.filename))
    /\ UNCHANGED <<txVars, fsVars, alloc, flagVars, pair>>

\* The recursive call returned walk.id to the invocation that made it, which
\* reads its directory; the outermost invocation returns to findINode.
Unwind ==
    /\ walk.pc = "unwind"
    /\ walk' =
         IF walk.pending = <<>> THEN [walk EXCEPT !.pc = "returned"]
         ELSE ReadInto(
                 [walk EXCEPT
                    !.pending = SubSeq(@, 1, Len(@) - 1),
                    !.parent = walk.pending[Len(walk.pending)][1],
                    !.filename = walk.pending[Len(walk.pending)][2]],
                 readDirectory(getINode(NewTx(store), walk.id),
                               walk.pending[Len(walk.pending)][2]))
    /\ UNCHANGED <<txVars, fsVars, alloc, flagVars, pair>>

NextResolve ==
    \/ Descend
    \/ Unwind

\* A call that is running goes on running.
SpecResolve == InitResolve /\ [][NextResolve]_vars /\ WF_vars(NextResolve)

\* ---------------------------------------------------------- SpecCommitFault
\* The engine over a store whose commit() may throw.
NextCommitFault ==
    \/ \E ns \in NameSeqs, perm \in Perms, cred \in Creds,
          ids \in FreshPairs(store) : Mkdir(ns, perm, cred, ids)
    \/ \E ns \in NameSeqs, flag \in Flags, perm \in Perms, cred \in Creds,
          ids \in FreshPairs(store) : CreateFile(ns, flag, perm, cred, ids)
    \/ \E old \in NameSeqs, new \in DestSeqs, cred \in Creds :
          RenameCommitFails(old, new, cred)

SpecCommitFault == Init /\ [][NextCommitFault]_vars

\* =================================================================== claims
\* C1 (SpecTx): once abort() has been called on a transaction, after any
\* get, put and remove calls on it, every key of the store holds the value
\* it had when the transaction began, and a key absent then is absent.
AbortRestores == txPhase = "aborted" => tx.store = txPre

\* An abort() that had something to undo.
AbortAfterChange == txPhase = "aborted" /\ txTouched # {}

\* C2 (Spec): a mutating engine call that throws leaves the store's content
\* as it was before the call.
MutatingOps == {"create", "mkdir", "unlink", "rmdir", "rename"}
ThrowLeavesStore ==
    (last.op \in MutatingOps /\ last.err # "OK") => ~last.changed

\* C3 (SpecCommitFault): when commit() throws in renameSync, the listing
\* blobs of both parents are as before the call, and so are the inode and
\* data of a file that was at the destination.
CommitFailureLeavesListings ==
    last.op = "rename-commit-fails" => last.tag = "intact"

\* C4 (Spec): every read-write transaction an engine call began has had
\* commit() or abort() called on it when the call returns or throws.
EveryTransactionClosed == last.closed

\* C5 (SpecAlloc): under a store whose put with overwrite = false always
\* reports a collision, addNewNode makes exactly 5 put attempts and then
\* throws EIO: it returns no id and makes no sixth attempt.
ExhaustsAfterFive ==
    alloc.put \in {"refuses", "throws"} =>
        /\ alloc.pc # "returned"
        /\ alloc.attempts <= RetryLimit
        /\ alloc.pc = "EIO" => alloc.attempts = RetryLimit

\* C6 (SpecCollide): ROOT_NODE_ID holds the root directory's inode, no two
\* inodes have the same data key, and no two directory entries name the same
\* inode key, also when randomUUID() returns a key that is in the store.
KeysUnshared ==
    /\ store[ROOT_NODE_ID] = InitStore[ROOT_NODE_ID]
    /\ \A k1, k2 \in InodeKeys(store) :
          k1 # k2 => store[k1].i.id # store[k2].i.id
    /\ \A e1, e2 \in Entries(store) :
          e1 # e2 => EntryId(store, e1) # EntryId(store, e2)

\* C7 (Spec): renameSync of an existing source whose parent the caller may
\* write throws EBUSY and leaves the store as it was when the destination's
\* parent is the source or lies below it; it does not throw EBUSY when the
\* destination's parent only begins with the source's path string.
BusyGuard ==
    last.op = "rename" =>
        /\ last.tag = "inside" => last.err = "EBUSY" /\ ~last.changed
        /\ last.tag = "beside" => last.err # "EBUSY"

\* A rename into the source's own subtree was refused.
BusyRefused ==
    last.op = "rename" /\ last.tag = "inside" /\ last.err = "EBUSY"

\* A rename to a destination whose parent shares a name prefix went through.
BesideRenamed ==
    last.op = "rename" /\ last.tag = "beside" /\ last.err = "OK"

\* C8 (SpecFile): createFileSync(p), then writeSync(b, 0, len(b), 0) on the
\* handle it returned, then closeSync: closeSync returns and statSync(p)
\* reports the size len(b).
CreateWriteClose ==
    (last.op = "close" /\ last.hist = "created-written") =>
        last.err = "OK" /\ last.n = last.want

\* Such a close after a write of MaxLen bytes.
CreateWriteCloseDone ==
    /\ last.op = "close"
    /\ last.hist = "created-written"
    /\ last.n = MaxLen

\* C9 (SpecFile): after a write or a truncate that was flushed, by itself
\* or by syncSync or closeSync, statSync reports for the path the length the
\* calls on the handle established: len after truncateSync(len), the larger
\* of the length before and position + n after a write of n bytes.
FlushEstablishesLength == last.flushed => last.n = last.want

\* A flushed truncate of a file of MaxLen bytes to none.
TruncatedToNone ==
    /\ last.op = "truncate"
    /\ last.flushed
    /\ last.was = MaxLen
    /\ last.n = 0

RemovalNeedsParentWrite ==
    (last.op \in {"unlink", "rmdir"} /\ last.wparent = "denied") =>
        last.err = "EACCES" /\ ~last.changed

\* C12 (Spec): renameSync by a caller who may write the source's parent but
\* not the destination's parent throws EACCES and leaves the store as it
\* was.
RenameNeedsDestWrite ==
    (last.op = "rename" /\ last.wparent = "denied") =>
        last.err = "EACCES" /\ ~last.changed

CreateRefusedTaken ==
    /\ last.op \in {"create", "mkdir"}
    /\ last.wparent = "granted"
    /\ last.tag = "exists"
    /\ last.err = "EEXIST"

SizeIsBlobLength ==
    \A k \in InodeKeys(store) :
        store[k].i.size = BlobLen(store[store[k].i.id])


\* C18 (SpecLookup): findINode returns the inode reached by looking up each
\* component of the path in turn from ROOT_NODE_ID; it fails ENOTDIR when a
\* non-final component is not a directory and ENOENT when a component is
\* missing from its parent's listing or its id has no inode; it writes
\* nothing to the store.
ResolvesByComponents ==
    (last.op = "lookup" /\ last.ref.err # "other") =>
        last.found = last.ref /\ ~last.changed

\* A path of two components resolved to its inode.
ResolvedTwoDeep ==
    /\ last.op = "lookup"
    /\ last.found.err = "OK"
    /\ \E ns \in [1 .. 2 -> Names] : last.path = PathOf(ns)

\* A name was looked up in a file.
ResolvedThroughFile == last.op = "lookup" /\ last.ref.err = "ENOTDIR"

\* A listing entry's id had no inode.
ResolvedDangling ==
    /\ last.op = "lookup"
    /\ last.ref.err = "ENOENT"
    /\ \E k \in InodeKeys(store) :
          /\ store[store[k].i.id].kind = "listing"
          /\ \E n \in DOMAIN store[store[k].i.id].l :
                /\ store[store[store[k].i.id].l[n]] = undefined
                /\ last.path = join(Root, n)


\* The twelve mode strings.
TwelveModes ==
    {<<"r">>, <<"r", "+">>, <<"r", "s">>, <<"r", "s", "+">>,
     <<"w">>, <<"w", "x">>, <<"w", "+">>, <<"w", "x", "+">>,
     <<"a">>, <<"a", "x">>, <<"a", "+">>, <<"a", "x", "+">>}
TwelveNumbers == {NumberOf(m).val : m \in TwelveModes}

\* C16 (SpecFlag): over the twelve mode strings the numeric and the string
\* form of a flag are a bijection: StringOf(NumberOf(s)) = s,
\* NumberOf(StringOf(n)) = n, and the twelve numbers are pairwise distinct;
\* every other string or number makes NumberOf, StringOf and FileFlag.Get
\* fail with EINVAL.
FlagBijection ==
    /\ Cardinality(TwelveNumbers) = 12
    /\ conv.op = "NumberOf" =>
          IF conv.str \in TwelveModes
          THEN conv.err = "OK" /\ conv.flag = conv.str
          ELSE conv.err = "EINVAL"
    /\ conv.op = "StringOf" =>
          IF conv.num \in TwelveNumbers
          THEN conv.err = "OK" /\ conv.val = conv.num
          ELSE conv.err = "EINVAL"
    /\ (conv.op = "Get" /\ conv.kind = "string") =>
          IF conv.str \in TwelveModes
          THEN conv.err = "OK" /\ conv.flag = conv.str
          ELSE conv.err = "EINVAL"
    /\ (conv.op = "Get" /\ conv.kind = "number") =>
          IF conv.num \in TwelveNumbers
          THEN conv.err = "OK" /\ NumberOf(conv.flag).val = conv.num
          ELSE conv.err = "EINVAL"

\* The number of 'rs+' went to its string and back.
FlagRoundTrip ==
    /\ conv.op = "StringOf"
    /\ conv.num = BitOr(O_RDWR, O_SYNC)
    /\ conv.flag = <<"r", "s", "+">>
    /\ conv.val = conv.num

\* C17 (SpecFlag): pathExistsAction is THROW for an exclusive flag (x), else
\* TRUNCATE for a truncating one (w), else NOP; pathNotExistsAction is
\* CREATE exactly when the flag is writable or appendable and is not the
\* string 'r+', else THROW.
FlagDecisions ==
    (conv.op = "Get" /\ conv.err = "OK") =>
        /\ conv.exists =
              IF conv.flag \in {<<"w", "x">>, <<"w", "x", "+">>,
                                <<"a", "x">>, <<"a", "x", "+">>}
              THEN "THROW"
              ELSE IF conv.flag \in {<<"w">>, <<"w", "+">>}
              THEN "TRUNCATE"
              ELSE "NOP"
        /\ conv.missing =
              IF conv.flag \in {<<"r">>, <<"r", "s">>, <<"r", "+">>}
              THEN "THROW"
              ELSE "CREATE"

\* The decisions of 'r+' were asked.
DecidedReadWrite ==
    /\ conv.op = "Get"
    /\ conv.flag = <<"r", "+">>
    /\ conv.exists = "NOP"
    /\ conv.missing = "THROW"


\* C19 (SpecResolve): for every path string, absolute or relative, and every
\* store, self-referential listings included, _findINode finishes after
\* finitely many recursive steps, returning an id or throwing; the visited
\* set goes through every recursive step, and reaching a sub-path visited
\* before in the same resolution throws EIO instead of recursing again.
ResolutionTerminates ==
    /\ <>(walk.pc \in {"returned", "threw"})
    /\ [](walk.again => (walk.pc = "threw" /\ walk.err = "EIO"))
    /\ [](Len(walk.pending) < MaxDepth)

\* A relative path came back to a sub-path it had visited.
ResolutionCutShort ==
    /\ walk.pc = "threw"
    /\ walk.err = "EIO"
    /\ walk.again
    /\ walk.path = <<"a", Sep, "a">>


\* C13 (SpecRoot): in every state reached from construction by
\* createFileSync, mkdirSync, unlinkSync, rmdirSync, renameSync, chmodSync,
\* chownSync, empty() and write, truncate, sync and close on handles opened
\* on file paths, ROOT_NODE_ID holds a directory inode whose data key holds a
\* listing; and right after empty() that listing is empty.
RootInvariant ==
    /\ store[ROOT_NODE_ID].kind = "inode"
    /\ store[ROOT_NODE_ID].i.type = DIRECTORY
    /\ store[store[ROOT_NODE_ID].i.id].kind = "listing"
    /\ last.op = "empty" =>
          store[store[ROOT_NODE_ID].i.id].l = EmptyListing


\* C14 (SpecTwo): of two handles open on one path, a write or a truncate on
\* one changes neither the other's buffer nor the store's data blob until
\* the writing handle syncs; and once both handles have synced what they
\* wrote, the store's data blob is the buffer of the one that synced last.
HandlesShareNothing ==
    /\ (pair.obs.op \in {"write", "truncate"} /\ ~pair.obs.flushed) =>
          pair.obs.otherSame /\ pair.obs.storeSame
    /\ (/\ pair.lastSync \in 1 .. 2
        /\ \A j \in 1 .. 2 : pair.h[j] # NoFile /\ ~pair.h[j].dirty) =>
          store[DataKey(store)] = Bytes(pair.h[pair.lastSync].buffer)


RmdirRefusedFile ==
    last.op = "rmdir" /\ last.tag = "file" /\ last.err = "ENOTDIR"


RenameOntoDirectoryRefused ==
    last.op = "rename" /\ last.dest = "directory" /\ last.err = "EPERM"

SyncEffect ==
    (last.op = "sync" /\ last.err = "OK") =>
        last.tag \in {"data", "data-inode"}

\* A sync that put the data and the inode, and one that put the data only.
SyncedDataAndInode ==
    last.op = "sync" /\ last.err = "OK" /\ last.tag = "data-inode"

SyncedDataOnly ==
    last.op = "sync" /\ last.err = "OK" /\ last.tag = "data"


\* C25 (SpecFile): a call on a handle leaves a dirty handle not dirty only
\* if it flushed (syncSync, closeSync, or a write or truncate under a
\* synchronous flag) and the engine's syncSync returned; a syncSync or
\* closeSync in which the engine's syncSync throws leaves the handle dirty;
\* and on a handle that is not dirty, syncSync and closeSync return without
\* beginning a transaction or writing the store, also when the path no
\* longer resolves.
HandleOps == {"write", "truncate", "sync", "close"}
DirtyLifecycle ==
    /\ (last.op \in HandleOps /\ last.wasDirty /\ ~last.dirty) =>
          last.flushed /\ last.err = "OK"
    /\ (last.op \in {"sync", "close"} /\ last.wasDirty
          /\ last.err # "OK") => last.dirty
    /\ (last.op \in {"sync", "close"} /\ ~last.wasDirty) =>
          last.err = "OK" /\ ~last.changed /\ last.closed /\ ~last.dirty

\* A sync in which the engine threw left the handle dirty.
FailedSyncStaysDirty ==
    last.op = "sync" /\ last.wasDirty /\ last.err # "OK" /\ last.dirty

\* A sync cleared the flag.
SyncClearedDirty ==
    last.op = "sync" /\ last.wasDirty /\ last.err = "OK" /\ ~last.dirty

\* A close of a handle that is not dirty, its path gone, did nothing.
CleanCloseIsNoOp ==
    /\ last.op = "close"
    /\ ~last.wasDirty
    /\ last.err = "OK"
    /\ findINode(NewTx(store), PathOf(<<<<"a">>>>)).err = "ENOENT"


\* C26 (SpecFile): closeSync on a handle whose path resolves, after any
\* writeSync and truncateSync calls on it, returns and leaves the handle not
\* dirty and the store's data blob equal to the handle's buffer: a new
\* handle opened on the path reads, with readSync of the whole file, the
\* bytes the closed handle held.
CloseRoundTrip == (last.op = "close" /\ last.tag # "gone") => last.tag = "round"

\* A close that flushed MaxLen bytes, which a new handle reads.
ClosedAndReread ==
    /\ last.op = "close"
    /\ last.tag = "round"
    /\ last.wasDirty
    /\ last.n = MaxLen

\* C27 (SpecFile): on a handle opened with a synchronous writable flag
\* (rs+), after every writeSync and truncateSync that returned the handle
\* is not dirty, the store's data blob is the handle's buffer and the
\* inode's size is the handle's size, with no call of syncSync in between.
SynchronousFlush ==
    (/\ last.op \in {"write", "truncate"}
     /\ last.err = "OK"
     /\ file # NoFile
     /\ isSynchronous(file.flag)) =>
        /\ ~file.dirty
        /\ findINode(NewTx(store), file.path).err = "OK"
        /\ store[findINode(NewTx(store), file.path).val.id]
             = Bytes(file.buffer)
        /\ findINode(NewTx(store), file.path).val.size = file.stats.size
        /\ file.stats.size = Len(file.buffer)

\* A shrinking truncate and an extending one flushed at once.
ShrinkFlushed ==
    /\ last.op = "truncate"
    /\ last.err = "OK"
    /\ file # NoFile
    /\ isSynchronous(file.flag)
    /\ last.was > last.n
    /\ last.wasDirty = FALSE

ExtendFlushed ==
    /\ last.op = "truncate"
    /\ last.err = "OK"
    /\ file # NoFile
    /\ isSynchronous(file.flag)
    /\ last.was < last.n
    /\ store[findINode(NewTx(store), file.path).val.id] = Bytes(file.buffer)

\* A write under rs+ flushed at once.
WriteFlushed ==
    /\ last.op = "write"
    /\ last.err = "OK"
    /\ file # NoFile
    /\ isSynchronous(file.flag)
    /\ last.was < last.n
    /\ store[findINode(NewTx(store), file.path).val.id] = Bytes(file.buffer)


WriteResultAndCursor ==
    (last.op = "write" /\ last.err = "OK") =>
        last.cursor \in {"returned", "advanced"}

\* C30 (SpecIo): readSync(buffer, offset, length, position) on a readable
\* handle, buffer having room, returns the smaller of length and what the
\* file holds from position on (none at or beyond the size), copies that
\* many bytes of the file from position on into buffer at offset and
\* nothing else, and leaves the file's bytes, size and dirty flag as they
\* were.
ReadClamping ==
    (last.op = "read" /\ last.tag \notin {"none", "noroom"}) =>
        last.tag \in {"exact", "exact-none", "exact-clamped"}

\* A read that the size cut short, and one at the end of the file.
ReadClamped == last.op = "read" /\ last.tag = "exact-clamped"

ReadNothing ==
    last.op = "read" /\ last.tag = "exact-none" /\ last.was > 0


\* C31 (SpecIo): on a handle opened with an append flag the position
\* reported is the file's size, and every writeSync that returns, buf holding
\* length bytes from offset on, puts them at the end of the file, whatever
\* position was passed: the size grows by length and the bytes the file held
\* are as they were.
AppendMode ==
    /\ (file # NoFile /\ isAppendable(file.flag)) =>
          PositionOf(file) = file.stats.size
    /\ (last.op = "write" /\ last.append \notin {"none", "short"}) =>
          last.append \in {"appended-null", "appended-given"}

\* C32 (SpecIo): a writeSync or truncateSync on a handle whose flag is not
\* writable, and a readSync on one whose flag is not readable, throws EPERM
\* and leaves the handle's buffer, size, cursor and dirty flag as they
\* were, so that closeSync on a handle that was not dirty writes nothing.
RejectedIsNoOp ==
    /\ (last.op \in {"write", "truncate"} /\ file # NoFile
           /\ ~isWriteable(file.flag)) =>
          last.err = "EPERM" /\ last.kept = "kept"
    /\ (last.op = "read" /\ file # NoFile /\ ~isReadable(file.flag)) =>
          last.err = "EPERM" /\ last.kept = "kept"

\* C33 (SpecProp): chmodSync, chownSync and utimesSync on a handle throw
\* ENOTSUP, leaving the handle and the store as they were, if the file
\* system's metadata reports no property support; otherwise, the path of
\* the handle resolving, each returns with the handle not dirty and the
\* handle's stats and the stored inode holding the new mode, owner or
\* times.
PropOps == {"fchmod", "fchown", "futimes"}
PropertyMutation ==
    (last.op \in PropOps /\ last.tag # "gone") =>
        last.tag \in {"refused", "applied", "applied-same"}

\* A chown that changed the stored inode of a file that had been written.
OwnerStored ==
    /\ last.op = "fchown"
    /\ last.tag = "applied"
    /\ last.n > 0

\* A chmod and a utimes that did, and a chmod refused on a dirty handle.
ModeStored == last.op = "fchmod" /\ last.tag = "applied" /\ last.changed

TimesStored == last.op = "futimes" /\ last.tag = "applied" /\ last.changed

PropertyRefused ==
    last.op = "fchmod" /\ last.tag = "refused" /\ last.dirty

\* n & bit is not zero, bit being a power of two.
HasBit(n, bit) == (n \div bit) % 2 = 1

\* C34 (SpecFlag): for each of the twelve flags, pathNotExistsAction() of
\* the object FileFlag.Get returns is CREATE if and only if the number
\* FileFlag.NumberOf gives for its string has the O_CREAT bit.
MissingActionMatchesCreat ==
    (conv.op = "Get" /\ conv.err = "OK") =>
        /\ NumberOf(conv.flag).err = "OK"
        /\ (conv.missing = "CREATE") <=>
              HasBit(NumberOf(conv.flag).val, O_CREAT)

\* The ids of a listing.
IdsOf(l) == {l[n] : n \in DOMAIN l}

\* The keys of S, the data keys of the inodes among them and the ids of the
\* listings among them.
Referred(s, S) ==
    S \cup {s[k].i.id : k \in {j \in S : s[j].kind = "inode"}}
      \cup UNION {IdsOf(s[k].l) : k \in {j \in S : s[j].kind = "listing"}}

RECURSIVE ReachableFrom(_, _)
ReachableFrom(s, S) ==
    IF Referred(s, S) = S THEN S ELSE ReachableFrom(s, Referred(s, S))

\* C35 (SpecTree): in every state that createFileSync, mkdirSync,
\* unlinkSync, rmdirSync and renameSync, returning or throwing, and the
\* syncs of a handle opened on a file reach, every id of every listing is
\* the key of an inode, the data key of every inode is in the store, and
\* every key of the store is reached from the root inode through data keys
\* and listings.
TreeWellFormed ==
    /\ store[ROOT_NODE_ID].kind = "inode"
    /\ \A k \in Keys : store[k].kind = "listing" =>
          \A id \in IdsOf(store[k].l) : store[id].kind = "inode"
    /\ \A k \in Keys : store[k].kind = "inode" =>
          store[store[k].i.id] # undefined
    /\ {k \in Keys : store[k] # undefined}
          \subseteq ReachableFrom(store, {ROOT_NODE_ID})

\* C36 (SpecTree): a syncSync or closeSync of a dirty handle changes no key
\* of the store but the inode key and the data key of the node the handle
\* was opened on; if the handle's path names nothing any more it throws
\* ENOENT, leaves the store as it was and the handle dirty; if the path
\* names another node, that node's inode and data are left as they were.
HandleBinding ==
    last.op \in {"sync", "close"} =>
        last.bind \in {"clean", "own", "refused", "spared"}

\* The inode that p names in s, if it names a file, has the size of its
\* data.
StoredSizeIsLength(s, p) ==
    (/\ findINode(NewTx(s), p).err = "OK"
     /\ findINode(NewTx(s), p).val.type = FILE) =>
        findINode(NewTx(s), p).val.size
          = Len(BytesOf(s[findINode(NewTx(s), p).val.id]))

RegrownFlushed ==
    /\ last.op = "sync"
    /\ last.flushed
    /\ file # NoFile
    /\ ~isSynchronous(file.flag)
    /\ file.stats.size = MaxLen
    /\ Len(file.buffer) = MaxLen
    /\ SizeOf(store, file.path) = MaxLen

=============================================================================
